---- MODULE Spec2Model ----
(***************************************************************************)
(* statomata: the execution engine (ExecutorContext, StateMachineExecutor) *)
(* and the execution shells that drive it.                                 *)
(***************************************************************************)
EXTENDS Integers, Sequences, FiniteSets, TLC

\* ------------------------------------------------------------------ bounds
MaxOps == 2
MaxPending == 2
MaxRuns == 4
MaxNums == 2
MaxValue == 7

\* ------------------------------------------------------------------ values
None == "None"
States == {"S1", "S2", "S3"}
Incomes == {"i1", "i2"}
Outcomes == {"o1", "o2"}
Errors == {"E1", "E2"}
Callers == {"c1", "c2"}
AbortedStateReachedError == "AbortedStateReachedError"
InvalidStateError == "InvalidStateError"
ValueError == "ValueError"

Last(s) == s[Len(s)]
Front(s) == SubSeq(s, 1, Len(s) - 1)

\* no asynchronous machine runs next to the machine
NoMirror ==
    [ex |-> None, pc |-> None, income |-> None, replay |-> FALSE, outcome |-> None,
     last |-> None]

\* no AsyncStateMachineSubscriberRegistry is in use
NoRegistry == [subscribers |-> {}, pc |-> None, event |-> None, targets |-> {}, tasks |-> <<>>]

\* the attributes the example DeclarativeStateMachine subclasses keep on an instance
NoAttrs == [nums |-> <<>>, allow_d_to_e |-> FALSE, items |-> 0, payments |-> 0,
            shipment_id |-> None, value |-> 0]

\* ------------------------------------------------------------------ state
VARIABLES
    ex,        \* the executor: context, pending queue, notifications the subscriber got
    lock,      \* the shell's instance lock: the caller holding it, or None
    pc,        \* per caller: its position in run
    income,    \* per caller: run's argument, then the income of the current turn
    outcome,   \* per caller: run's local variable outcome
    replay,    \* per caller: the current turn is inside the recall loop of run
    handler,   \* per caller: the state object whose handle method is executing
    ops,       \* the set_state calls the running handler has made in this turn; beside
               \* a mirror, the Context methods it has called in this turn
    before,    \* context and pending queue as they were when the current turn began
    first,     \* the outcome of the triggering turn of the current run call
    last,      \* how the most recent run call ended
    returns,   \* with observer "all": every finished run call, its income and result
    callers,   \* the client threads that call run on this machine
    machine,   \* the state classes in use: "generic", "auth" or "traffic"
    observer,  \* the subscriber: "none", or one that keeps the notifications of the
               \* current turn ("turn") or all of them ("all")
    shell,     \* the shell class wrapping the executor
    input,     \* per caller: the incomes an iterable shell's run has still to consume
    outs,      \* per caller: the outcomes of the current turn still to be yielded
    tx,        \* a TransitionExecutor's transitions for one key, and the result of execute
    attrs,     \* the attributes a DeclarativeStateMachine subclass keeps on its instance
    mirror,    \* an AsyncUnaryStateMachine given the same handlers and incomes as the
               \* machine: its executor, its position in run and how its last run ended
    registry   \* an AsyncStateMachineSubscriberRegistry: its subscribers, the notify_*
               \* call in progress and the coroutines of the subscribers it gathers

vars == <<ex, lock, pc, income, outcome, replay, handler, ops, before, first, last,
          returns, callers, machine, observer, shell, input, outs, tx, attrs, mirror, registry>>

\* ------------------------------------------------------------------ ExecutorContext
ExecutorContext(state) ==
    [source |-> state, destination |-> None, initial |-> TRUE, entered |-> FALSE,
     deferred |-> FALSE, recalled |-> FALSE, aborted |-> FALSE]

set_state_keep_requests(ctx, state, final) ==
    [ctx EXCEPT !.destination = state, !.aborted = @ \/ final]

set_state_keep_first(ctx, state, final) ==
    [ctx EXCEPT !.destination = IF @ = None THEN state ELSE @,
                !.recalled = FALSE, !.aborted = final]

set_state(ctx, state, final) ==
    [ctx EXCEPT !.destination = state, !.recalled = FALSE, !.aborted = final]

defer(ctx) == [ctx EXCEPT !.deferred = TRUE]

ctx_recall(ctx) == [ctx EXCEPT !.recalled = TRUE]

abort(ctx) == [ctx EXCEPT !.aborted = TRUE]

can_transit_any(ctx) == ctx.destination # None

can_transit(ctx) == ctx.destination # None /\ ctx.source # ctx.destination

transit_keep_entered(ctx) ==
    IF ctx.destination = None
    THEN [context |-> ctx, source |-> ctx.source, destination |-> None]
    ELSE [context |-> [ctx EXCEPT !.source = ctx.destination, !.destination = None],
          source |-> ctx.source, destination |-> ctx.destination]

\* transit returns the pair (source, destination) and the updated context
transit(ctx) ==
    IF ctx.destination = None
    THEN [context |-> ctx, source |-> ctx.source, destination |-> None]
    ELSE [context |-> [ctx EXCEPT !.source = ctx.destination, !.destination = None,
                                  !.entered = FALSE],
          source |-> ctx.source, destination |-> ctx.destination]

\* ------------------------------------------------------------------ declared states
\* the DeclarativeStateMachine subclasses of examples/state_machines
DeclarativeMachines ==
    {"PositiveNumberStore", "TransitionCases", "OrderController", "ConditionCases"}

\* State(name, initial, final, fallback); fallback is the set of exception types
State(name, initial, final, fallback) ==
    [name |-> name, initial |-> initial, final |-> final, fallback |-> fallback]

\* the State class attributes of each subclass
states(m) ==
    CASE m = "PositiveNumberStore" ->
            {State("idle", TRUE, FALSE, {}), State("opened", FALSE, FALSE, {}),
             State("broken", FALSE, FALSE, {ValueError}), State("closed", FALSE, FALSE, {})}
      [] m = "TransitionCases" ->
            {State("a", TRUE, FALSE, {}), State("b", FALSE, FALSE, {}),
             State("c", FALSE, FALSE, {}), State("d", FALSE, FALSE, {}),
             State("e", FALSE, FALSE, {}), State("f", FALSE, TRUE, {})}
      [] m = "OrderController" ->
            {State("waiting_for_order", TRUE, FALSE, {}),
             State("waiting_for_payment", FALSE, FALSE, {}),
             State("processing", FALSE, FALSE, {}), State("shipping", FALSE, FALSE, {}),
             State("completed", FALSE, TRUE, {})}
      [] m = "ConditionCases" ->
            {State("idle", TRUE, FALSE, {}), State("ok", FALSE, FALSE, {}),
             State("not_ok", FALSE, FALSE, {})}
      [] m = "OutcomeCases" ->
            {State("idle", TRUE, FALSE, {}), State("unary", FALSE, FALSE, {}),
             State("iterable", FALSE, FALSE, {})}
      [] OTHER -> {}

\* StateMachineRegistry.initial, finals and fallbacks
initial(m) == (CHOOSE s \in states(m) : s.initial).name
finals(m) == {s.name : s \in {x \in states(m) : x.final}}
fallbacks(m) == {s \in states(m) : s.fallback # {}}

\* Configurator.build_fallback: the exception types of a state and a factory returning it
build_fallback(state) == [err_types |-> state.fallback, state_factory |-> state.name]

handle_unregistered(m, err) == None

\* the dispatcher __setup_fallback registers the fallback states in: None by default
handle(m, err) ==
    LET registered == {s \in fallbacks(m) : err \in build_fallback(s).err_types}
    IN  IF registered = {}
        THEN None
        ELSE build_fallback(CHOOSE s \in registered : TRUE).state_factory

\* ------------------------------------------------------------------ StateMachineExecutor
\* a notification received by the subscriber: kind, state and up to two arguments
Ev(kind, state, a, b) == <<kind, state, a, b>>

\* if self.__subscriber is not None: self.__subscriber.notify_...(...)
Notify(e, ev) == IF observer = "none" THEN e ELSE [e EXCEPT !.events = Append(@, ev)]

\* the fallback resolver the executor is constructed with
Fallback(err) ==
    IF shell = "declarative"
    THEN handle(machine, err)
    ELSE IF err = "E1" THEN "S3" ELSE None

StateMachineExecutor(state) ==
    [context |-> ExecutorContext(state), pending |-> <<>>, events |-> <<>>]

current_state(e) == e.context.source

is_aborted_never(e) == FALSE

is_aborted(e) == e.context.aborted

reset_state(e) ==
    IF ~can_transit(e.context)
    THEN [ok |-> FALSE, ex |-> e]
    ELSE LET tr == transit(e.context)
             e1 == [e EXCEPT !.context = tr.context]
         IN  [ok |-> tr.destination # None,
              ex |-> IF tr.destination # None
                     THEN Notify(e1, Ev("transition", tr.source, tr.destination, None))
                     ELSE e1]

enter_state_unchecked(e, inc) ==
    LET e1 == IF e.context.initial
              THEN [[e EXCEPT !.events = Append(@, <<"initial", e.context.source, None, None>>)]
                       EXCEPT !.context.initial = FALSE]
              ELSE e
        e2 == IF ~e1.context.entered
              THEN [[e1 EXCEPT !.events = Append(@, <<"state_entered", e.context.source, inc, None>>)]
                       EXCEPT !.context.entered = TRUE]
              ELSE e1
    IN  [raise |-> None, ex |-> e2]

enter_state(e, inc) ==
    IF is_aborted(e)
    THEN [raise |-> AbortedStateReachedError, ex |-> e]
    ELSE LET e1 == IF e.context.initial
                   THEN [Notify(e, Ev("initial", current_state(e), None, None))
                            EXCEPT !.context.initial = FALSE]
                   ELSE e
             e2 == IF ~e1.context.entered
                   THEN [Notify(e1, Ev("state_entered", current_state(e1), inc, None))
                            EXCEPT !.context.entered = TRUE]
                   ELSE e1
         IN  [raise |-> None, ex |-> e2]

handle_outcome_destination(e, inc, out) ==
    Notify(e, Ev("state_outcome",
                 IF e.context.destination # None THEN e.context.destination
                 ELSE current_state(e), inc, out))

handle_outcome(e, inc, out) ==
    Notify(e, Ev("state_outcome", current_state(e), inc, out))

leave_state_no_push(e, inc) ==
    LET e2 == IF can_transit(e.context)
              THEN Notify(e, Ev("state_left", current_state(e), inc, None))
              ELSE e
        e3 == reset_state(e2).ex
    IN  IF is_aborted(e3)
        THEN Notify(e3, Ev("final", current_state(e3), None, None))
        ELSE e3

leave_state(e, inc) ==
    LET e1 == IF e.context.deferred
              THEN [Notify([e EXCEPT !.pending = Append(@, inc)],
                           Ev("income_deferred", current_state(e), inc, None))
                       EXCEPT !.context.deferred = FALSE]
              ELSE e
        e2 == IF can_transit(e1.context)
              THEN Notify(e1, Ev("state_left", current_state(e1), inc, None))
              ELSE e1
        e3 == reset_state(e2).ex
    IN  IF is_aborted(e3)
        THEN Notify(e3, Ev("final", current_state(e3), None, None))
        ELSE e3

handle_state_error_unresolved(e, err) ==
    [ok |-> FALSE, ex |-> Notify(e, Ev("state_failed", current_state(e), err, None))]

handle_state_error(e, err) ==
    LET e1 == Notify(e, Ev("state_failed", current_state(e), err, None))
    IN  IF Fallback(err) = None
        THEN [ok |-> FALSE, ex |-> e1]
        ELSE reset_state([e1 EXCEPT !.context = set_state(@, Fallback(err), FALSE)])

can_recall_never(e) == FALSE

\* the loop condition of StateMachineExecutor.recall
can_recall(e) == ~is_aborted(e) /\ e.context.recalled /\ e.pending # <<>>

recall_peek(e) ==
    LET inc == Last(e.pending)
        e1 == Notify(e, Ev("income_recalled", current_state(e), inc, None))
        e2 == [e1 EXCEPT !.context.recalled = FALSE]
    IN  [income |-> inc, entered |-> enter_state(e2, inc)]

recall_fifo(e) ==
    LET inc == Head(e.pending)
        e1 == Notify([e EXCEPT !.pending = Tail(@)],
                     Ev("income_recalled", current_state(e), inc, None))
        e2 == [e1 EXCEPT !.context.recalled = FALSE]
    IN  [income |-> inc, entered |-> enter_state(e2, inc)]

\* one iteration of StateMachineExecutor.recall up to the yield: pop, notify, enter
recall(e) ==
    LET inc == Last(e.pending)
        e1 == Notify([e EXCEPT !.pending = Front(@)],
                     Ev("income_recalled", current_state(e), inc, None))
        e2 == [e1 EXCEPT !.context.recalled = FALSE]
    IN  [income |-> inc, entered |-> enter_state(e2, inc)]

NoTransitions == [table |-> <<>>, income |-> None, done |-> FALSE, returned |-> 0,
                  performed |-> <<>>]

NoResult == [caller |-> None, kind |-> "none", value |-> None]
Returned(c, v) == [caller |-> c, kind |-> "return", value |-> v]
Raised(c, err) == [caller |-> c, kind |-> "raise", value |-> err]

Snapshot(e) == [context |-> e.context, pending |-> e.pending]

InitShell(state) ==
    /\ ex = StateMachineExecutor(state)
    /\ lock = None
    /\ pc = [c \in Callers |-> "idle"]
    /\ income = [c \in Callers |-> None]
    /\ outcome = [c \in Callers |-> None]
    /\ replay = [c \in Callers |-> FALSE]
    /\ handler = [c \in Callers |-> None]
    /\ ops = <<>>
    /\ before = Snapshot(ex)
    /\ first = None
    /\ last = NoResult
    /\ returns = <<>>
    /\ input = [c \in Callers |-> <<>>]
    /\ outs = [c \in Callers |-> <<>>]

Init ==
    /\ InitShell("S1")
    /\ callers = {"c1"}
    /\ machine = "generic"
    /\ observer = "turn"
    /\ shell = "unary"
    /\ tx = NoTransitions
    /\ attrs = NoAttrs
    /\ mirror = NoMirror
    /\ registry = NoRegistry

\* ------------------------------------------------------------------ UnaryStateMachine.run
\* threading.Lock: acquire succeeds only when nobody holds the lock
lock_free_always(l) == TRUE

lock_free(l) == l = None

\* self.current_state.handle: the state object the shell invokes for a turn
handling_state_captured(e, previous) ==
    IF previous = None THEN current_state(e) ELSE previous

handling_state(e, previous) == current_state(e)

\* a new turn begins: what the observer keeps of the earlier notifications
Window(e) == IF observer = "turn" THEN [e EXCEPT !.events = <<>>] ELSE e

\* the observer "all" also keeps every run call: its income and, once it ended, its result
Called(inc, res) ==
    IF observer = "all" THEN Append(returns, [income |-> inc, result |-> res]) ELSE returns

Ended(res) ==
    IF observer = "all" THEN [returns EXCEPT ![Len(returns)].result = res] ELSE returns

\* the run call of caller c ends with result res: the lock is released
EndRun_holding(c, res) ==
    /\ last' = res
    /\ returns' = Ended(res)
    /\ pc' = [pc EXCEPT ![c] = "idle"]
    /\ lock' = IF res.kind = "raise" THEN lock ELSE None
    /\ income' = [income EXCEPT ![c] = None]
    /\ outcome' = [outcome EXCEPT ![c] = None]
    /\ handler' = [handler EXCEPT ![c] = None]

EndRun(c, res) ==
    /\ last' = res
    /\ returns' = Ended(res)
    /\ pc' = [pc EXCEPT ![c] = "idle"]
    /\ lock' = None
    /\ income' = [income EXCEPT ![c] = None]
    /\ outcome' = [outcome EXCEPT ![c] = None]
    /\ handler' = [handler EXCEPT ![c] = None]

\* with self.__lock: with self.__executor.visit_state(income) as context:
Begin(c, inc) ==
    /\ lock_free(lock)
    /\ LET en == enter_state(Window(ex), inc)
       IN  IF en.raise # None
           THEN /\ pc' = [pc EXCEPT ![c] = "idle"]
                /\ last' = Raised(c, en.raise)
                /\ returns' = Called(inc, Raised(c, en.raise))
                /\ lock' = None
                /\ ex' = en.ex
                /\ income' = [income EXCEPT ![c] = None]
                /\ UNCHANGED handler
           ELSE /\ pc' = [pc EXCEPT ![c] = "handle"]
                /\ last' = NoResult
                /\ lock' = c
                /\ ex' = en.ex
                /\ income' = [income EXCEPT ![c] = inc]
                /\ handler' = [handler EXCEPT ![c] = handling_state(en.ex, @)]
                /\ returns' = Called(inc, NoResult)
    /\ before' = Snapshot(ex)
    /\ ops' = <<>>
    /\ first' = None
    /\ replay' = [replay EXCEPT ![c] = FALSE]
    /\ UNCHANGED <<outcome, callers, machine, observer, shell, input, outs, tx, attrs, mirror, registry>>

\* a caller invokes run(income) while the lock is free
Run(c, inc) ==
    /\ shell = "unary"
    /\ c \in callers
    /\ pc[c] = "idle"
    /\ Len(returns) < MaxRuns
    /\ Begin(c, inc)

\* a caller invokes run(income) while another run holds the lock: it blocks
RunBlocked(c, inc) ==
    /\ shell = "unary"
    /\ c \in callers
    /\ pc[c] = "idle"
    /\ ~lock_free(lock)
    /\ pc' = [pc EXCEPT ![c] = "lock"]
    /\ income' = [income EXCEPT ![c] = inc]
    /\ UNCHANGED <<ex, lock, outcome, replay, handler, ops, before, first, last, returns,
                   callers, machine, observer, shell, input, outs, tx, attrs, mirror, registry>>

\* a blocked caller takes the lock once it is free
Acquire(c) ==
    /\ shell = "unary"
    /\ pc[c] = "lock"
    /\ Begin(c, income[c])

\* the running handler calls a method of its Context, which leaves the executor as e
HandlerCall(c, e) ==
    /\ pc[c] = "handle"
    /\ machine = "generic"
    /\ ex' = e
    /\ UNCHANGED <<lock, pc, income, outcome, replay, handler, before, first, last,
                   returns, callers, machine, observer, shell, input, outs, tx, attrs, mirror, registry>>

\* the handler calls context.set_state(state, final=final)
HandlerSetState(c, s, f) ==
    /\ Len(ops) < MaxOps
    /\ HandlerCall(c, [ex EXCEPT !.context = set_state(@, s, f)])
    /\ ops' = Append(ops, <<"set_state", s>>)

\* the handler calls context.defer()
HandlerDefer(c) ==
    /\ Len(ex.pending) < MaxPending
    /\ HandlerCall(c, [ex EXCEPT !.context = defer(@)])
    /\ UNCHANGED ops

\* the handler calls context.recall()
HandlerRecall(c) ==
    /\ HandlerCall(c, [ex EXCEPT !.context = ctx_recall(@)])
    /\ UNCHANGED ops

\* the handler calls context.abort()
HandlerAbort(c) ==
    /\ HandlerCall(c, [ex EXCEPT !.context = abort(@)])
    /\ UNCHANGED ops

\* outcome = self.current_state.handle(...): the assignment to run's local variable
assign_outcome_once(previous, out) == IF previous = None THEN out ELSE previous

assign_outcome(previous, out) == out

\* the handler returns out from the executor state e: outcome = handle(...);
\* handle_outcome(income, outcome); then the with block (or the resumed recall
\* generator) leaves the state; the recall loop then either yields the next
\* replayed income or ends, and run returns outcome
ReturnFrom(c, e, out) ==
    LET e2 == leave_state(handle_outcome(e, income[c], out), income[c])
    IN  /\ ex' = e2
        /\ first' = IF replay[c] THEN first ELSE out
        /\ IF can_recall(e2)
           THEN /\ pc' = [pc EXCEPT ![c] = "recall"]
                /\ outcome' = [outcome EXCEPT ![c] = assign_outcome(@, out)]
                /\ UNCHANGED <<lock, income, handler, last, returns>>
           ELSE EndRun(c, Returned(c, assign_outcome(outcome[c], out)))
        /\ UNCHANGED <<replay, before, callers, machine, observer, shell, input, outs, tx, attrs, mirror, registry>>

HandlerReturn(c, out) ==
    /\ shell = "unary"
    /\ pc[c] = "handle"
    /\ machine = "generic"
    /\ ReturnFrom(c, ex, out)
    /\ UNCHANGED ops

\* the handler raises err. In the triggering turn visit_state catches it, runs
\* handle_state_error and re-raises. In a replayed turn the exception leaves the
\* for loop of run: the suspended recall generator is closed (GeneratorExit is
\* not an Exception), so neither handle_state_error nor leave_state runs.
HandlerRaise(c, err) ==
    /\ shell = "unary"
    /\ pc[c] = "handle"
    /\ machine = "generic"
    /\ ex' = IF replay[c] THEN ex ELSE handle_state_error(ex, err).ex
    /\ EndRun(c, Raised(c, err))
    /\ UNCHANGED <<replay, ops, before, first, callers, machine, observer, shell, input, outs, tx, attrs, mirror, registry>>

\* for recalled, context in self.__executor.recall(): the next replayed turn
RecallNext(c) ==
    /\ pc[c] = "recall"
    /\ can_recall(ex)
    /\ LET r == recall(Window(ex))
       IN  /\ ex' = r.entered.ex
           /\ income' = [income EXCEPT ![c] = r.income]
           /\ handler' = [handler EXCEPT ![c] = handling_state(r.entered.ex, @)]
    /\ before' = Snapshot(ex)
    /\ replay' = [replay EXCEPT ![c] = TRUE]
    /\ ops' = <<>>
    /\ pc' = [pc EXCEPT ![c] = "handle"]
    /\ UNCHANGED <<lock, outcome, first, last, returns, callers, machine, observer, shell, input, outs, tx, attrs, mirror, registry>>

Next ==
    \E c \in Callers :
        \/ \E inc \in Incomes : Run(c, inc)
        \/ \E s \in States, f \in BOOLEAN : HandlerSetState(c, s, f)
        \/ HandlerDefer(c)
        \/ HandlerRecall(c)
        \/ HandlerAbort(c)
        \/ \E out \in Outcomes : HandlerReturn(c, out)
        \/ \E err \in Errors : HandlerRaise(c, err)
        \/ RecallNext(c)

Spec == Init /\ [][Next]_vars

\* ------------------------------------------------------------------ example machines
RECURSIVE ApplyOps(_, _)
\* the Context calls of a handler body, applied in program order
ApplyOps(ctx, trace) ==
    IF trace = <<>> THEN ctx
    ELSE LET op == Head(trace)
             c1 == CASE op[1] = "set_state" -> set_state(ctx, op[2], op[3])
                     [] op[1] = "defer" -> defer(ctx)
                     [] op[1] = "recall" -> ctx_recall(ctx)
                     [] op[1] = "abort" -> abort(ctx)
         IN  ApplyOps(c1, Tail(trace))

OpSetState(s) == <<"set_state", s, FALSE>>
OpDefer == <<"defer", None, FALSE>>
OpRecall == <<"recall", None, FALSE>>

\* examples/state_machines/defer_recall_cases.py: the incomes are dicts
AuthIncomes ==
    {"{data: x}", "{data: ok}", "{username: John}", "{password: secret}",
     "{password: wrong}", "{password: secret, username: John, data: ok}"}

\* the dict an income stands for; None marks a missing key
AuthInput(inc) ==
    CASE inc = "{data: x}" -> [username |-> None, password |-> None, data |-> "x"]
      [] inc = "{data: ok}" -> [username |-> None, password |-> None, data |-> "ok"]
      [] inc = "{username: John}" -> [username |-> "John", password |-> None, data |-> None]
      [] inc = "{password: secret}" -> [username |-> None, password |-> "secret", data |-> None]
      [] inc = "{password: wrong}" -> [username |-> None, password |-> "wrong", data |-> None]
      [] inc = "{password: secret, username: John, data: ok}" ->
            [username |-> "John", password |-> "secret", data |-> "ok"]

\* f"Welcome {username}, processing data: {data}" for the username John
Welcome(data) ==
    CASE data = "x" -> "Welcome John, processing data: x"
      [] data = "ok" -> "Welcome John, processing data: ok"
      [] data = None -> "Welcome John, processing data: None"

WaitingForUsername(inc) ==
    IF AuthInput(inc).username = None
    THEN [ops |-> <<OpDefer>>, outcome |-> "Username is missing."]
    ELSE [ops |-> <<OpSetState("WaitingForPassword"), OpRecall>>
                  \o (IF AuthInput(inc).password # None THEN <<OpDefer>> ELSE <<>>),
          outcome |-> "Username 'John' accepted."]

WaitingForPassword(inc) ==
    IF AuthInput(inc).password = None
    THEN [ops |-> <<OpDefer>>, outcome |-> "Password is missing."]
    ELSE IF AuthInput(inc).password = "secret"
         THEN [ops |-> <<OpSetState("Authenticated"), OpRecall>>
                       \o (IF AuthInput(inc).data # None THEN <<OpDefer>> ELSE <<>>),
               outcome |-> "User 'John' authenticated."]
         ELSE [ops |-> <<>>, outcome |-> "Invalid password."]

Authenticated(inc) ==
    [ops |-> <<OpRecall>>, outcome |-> Welcome(AuthInput(inc).data)]

\* tests/stub/traffic_light_machine.py
TrafficEvents == {"GoEvent", "CycleEvent"}

Green(inc) ==
    IF inc = "GoEvent"
    THEN [ops |-> <<>>, outcome |-> "you can go"]
    ELSE [ops |-> <<OpSetState("Yellow")>>, outcome |-> "switched to yellow"]

Yellow(inc) ==
    IF inc = "GoEvent"
    THEN [ops |-> <<>>, outcome |-> "you may go on your own risk"]
    ELSE [ops |-> <<OpSetState("Red")>>, outcome |-> "switched to red"]

Red(inc) ==
    IF inc = "GoEvent"
    THEN [ops |-> <<>>, outcome |-> "you can't go!"]
    ELSE [ops |-> <<OpSetState("Green")>>, outcome |-> "switched to green"]

\* state.handle(income, context) of the example state classes
Handle(state, inc) ==
    CASE state = "WaitingForUsername" -> WaitingForUsername(inc)
      [] state = "WaitingForPassword" -> WaitingForPassword(inc)
      [] state = "Authenticated" -> Authenticated(inc)
      [] state = "Green" -> Green(inc)
      [] state = "Yellow" -> Yellow(inc)
      [] state = "Red" -> Red(inc)

\* the set_state calls among the Context calls of a handler body
Requested(trace) ==
    LET calls == SelectSeq(trace, LAMBDA op : op[1] = "set_state")
    IN  [i \in 1..Len(calls) |-> <<"set_state", calls[i][2]>>]

\* run invokes the handler of an example state; the handler runs to its return
ExampleHandle(c) ==
    /\ pc[c] = "handle"
    /\ machine # "generic"
    /\ LET h == Handle(handler[c], income[c])
       IN  /\ ops' = Requested(h.ops)
           /\ ReturnFrom(c, [ex EXCEPT !.context = ApplyOps(@, h.ops)], h.outcome)

InitExamples ==
    /\ machine \in {"auth", "traffic"}
    /\ InitShell(IF machine = "auth" THEN "WaitingForUsername" ELSE "Green")
    /\ callers = {"c1"}
    /\ observer = "all"
    /\ shell = "unary"
    /\ tx = NoTransitions
    /\ attrs = NoAttrs
    /\ mirror = NoMirror
    /\ registry = NoRegistry

NextExamples ==
    \E c \in Callers :
        \/ \E inc \in AuthIncomes : machine = "auth" /\ Run(c, inc)
        \/ \E inc \in TrafficEvents : machine = "traffic" /\ Run(c, inc)
        \/ ExampleHandle(c)
        \/ RecallNext(c)

SpecExamples == InitExamples /\ [][NextExamples]_vars

\* ------------------------------------------------------------------ iterable shells
MaxInput == 2
MaxOutcomes == 2

\* the incomes iterable a caller passes to run
Inputs == UNION {[1..n -> Incomes] : n \in 0..MaxInput}

\* the sequences of outcomes a UnarySeqState handler returns
OutcomeSeqs == UNION {[1..n -> Outcomes] : n \in 0..MaxOutcomes}

\* the executor interface the iterable shells call: entering a visit,
\* leave-processing of a visit, and the abort check after each income
start_state(e, inc) == enter_state(e, inc)

finish_state(e, inc) == leave_state(e, inc)

is_finished(e) == is_aborted(e)

Closed(c) == [caller |-> c, kind |-> "close", value |-> None]

\* the iterable run of caller c ends with result res from executor state e
EndIterable(c, e, res) ==
    /\ ex' = e
    /\ input' = input
    /\ outs' = [outs EXCEPT ![c] = <<>>]
    /\ EndRun(c, res)
    /\ UNCHANGED <<before, ops>>

\* the turn of the first income of rest begins: the executor was e before the
\* visit and is entered after it; the current state's handler is invoked
EnterTurn(c, e, entered, rest) ==
    /\ ex' = entered
    /\ before' = Snapshot(e)
    /\ ops' = <<>>
    /\ input' = [input EXCEPT ![c] = Tail(rest)]
    /\ outs' = [outs EXCEPT ![c] = <<>>]
    /\ pc' = [pc EXCEPT ![c] = "handle"]
    /\ lock' = c
    /\ income' = [income EXCEPT ![c] = Head(rest)]
    /\ outcome' = [outcome EXCEPT ![c] = None]
    /\ handler' = [handler EXCEPT ![c] = handling_state(entered, @)]
    /\ last' = NoResult
    /\ UNCHANGED returns

\* for income in incomes: context = self.__executor.start_state(income)
NextIncome(c, e, rest) ==
    IF rest = <<>>
    THEN EndIterable(c, e, Returned(c, None))
    ELSE LET en == start_state(Window(e), Head(rest))
         IN  IF en.raise # None
             THEN EndIterable(c, en.ex, Raised(c, en.raise))
             ELSE EnterTurn(c, e, en.ex, rest)

AfterIncome_unchecked(c, e) == NextIncome(c, e, input[c])

\* if self.__executor.is_finished: return; otherwise the loop takes the next income
AfterIncome(c, e) ==
    IF is_finished(e)
    THEN EndIterable(c, e, Returned(c, None))
    ELSE NextIncome(c, e, input[c])

\* AnyioStreamStateMachine.run: async for item in receiver, then
\* async for income, context in self.__executor.process(item). process visits
\* the state only if the machine is not aborted; on an aborted machine it
\* yields nothing and run leaves its loop at the is_aborted check
AnyioNextItem(c, e, rest) ==
    IF rest = <<>> \/ is_aborted(e)
    THEN EndIterable(c, e, Returned(c, None)) /\ UNCHANGED replay
    ELSE /\ EnterTurn(c, e, enter_state(Window(e), Head(rest)).ex, rest)
         /\ replay' = [replay EXCEPT ![c] = FALSE]

\* process resumes after a turn left the executor as e: its recall loop yields
\* the next replayed income, or process ends and run checks is_aborted
AnyioAfterTurn(c, e) ==
    IF can_recall(e)
    THEN /\ ex' = e
         /\ pc' = [pc EXCEPT ![c] = "recall"]
         /\ UNCHANGED <<lock, income, outcome, replay, handler, ops, before, last,
                        returns, input, outs>>
    ELSE AnyioNextItem(c, e, input[c])

\* with self.__lock: the first next() of the generator returned by run
IterableBegin(c, incs) ==
    /\ lock_free(lock)
    /\ IF shell = "anyio"
       THEN AnyioNextItem(c, ex, incs)
       ELSE NextIncome(c, ex, incs) /\ UNCHANGED replay
    /\ UNCHANGED <<first, callers, machine, observer, shell, tx, attrs, mirror, registry>>

\* a consumer starts iterating run(incomes) while the lock is free
IterableRun(c, incs) ==
    /\ shell # "unary"
    /\ c \in callers
    /\ pc[c] = "idle"
    /\ IterableBegin(c, incs)

\* a consumer starts iterating run(incomes) while another run holds the lock
IterableRunBlocked(c, incs) ==
    /\ shell # "unary"
    /\ c \in callers
    /\ pc[c] = "idle"
    /\ ~lock_free(lock)
    /\ pc' = [pc EXCEPT ![c] = "lock"]
    /\ input' = [input EXCEPT ![c] = incs]
    /\ UNCHANGED <<ex, lock, income, outcome, replay, handler, ops, before, first, last,
                   returns, callers, machine, observer, shell, outs, tx, attrs, mirror, registry>>

IterableAcquire(c) ==
    /\ shell # "unary"
    /\ pc[c] = "lock"
    /\ IterableBegin(c, input[c])

\* yield outcome: run is suspended until the consumer asks for the next item
Yield(c, out, rest) ==
    /\ pc' = [pc EXCEPT ![c] = "yielded"]
    /\ outcome' = [outcome EXCEPT ![c] = out]
    /\ outs' = [outs EXCEPT ![c] = rest]
    /\ UNCHANGED <<lock, income, replay, handler, ops, before, first, last, returns,
                   callers, machine, observer, shell, input, tx, attrs, mirror, registry>>

\* IterableState.handle is a generator: it produces the next outcome
HandlerYield(c, out) ==
    /\ shell \in {"iterable", "anyio"}
    /\ pc[c] = "handle"
    /\ machine = "generic"
    /\ Len(SelectSeq(ex.events, LAMBDA ev : ev[1] = "state_outcome")) < MaxOutcomes
    /\ Yield(c, out, <<>>)
    /\ UNCHANGED ex

\* IterableState.handle is exhausted: the else branch runs finish_state
HandlerStop(c) ==
    /\ shell = "iterable"
    /\ pc[c] = "handle"
    /\ machine = "generic"
    /\ AfterIncome(c, finish_state(ex, income[c]))
    /\ UNCHANGED <<replay, first, callers, machine, observer, shell, tx, attrs, mirror, registry>>

\* UnaryOptState.handle returns an outcome or None
HandlerReturnOpt(c, out) ==
    /\ shell = "iterable_opt"
    /\ pc[c] = "handle"
    /\ machine = "generic"
    /\ IF out # None
       THEN Yield(c, out, <<>>) /\ UNCHANGED ex
       ELSE /\ AfterIncome(c, finish_state(ex, income[c]))
            /\ UNCHANGED <<replay, first, callers, machine, observer, shell, tx, attrs, mirror, registry>>

\* UnarySeqState.handle returns a sequence of outcomes
HandlerReturnSeq(c, seq) ==
    /\ shell = "iterable_seq"
    /\ pc[c] = "handle"
    /\ machine = "generic"
    /\ IF seq # <<>>
       THEN Yield(c, Head(seq), Tail(seq)) /\ UNCHANGED ex
       ELSE /\ AfterIncome(c, finish_state(ex, income[c]))
            /\ UNCHANGED <<replay, first, callers, machine, observer, shell, tx, attrs, mirror, registry>>

\* the consumer asks for the next item: run resumes after its yield with
\* handle_outcome and continues to the next yield or to finish_state
Resume(c) ==
    /\ pc[c] = "yielded"
    /\ LET e1 == handle_outcome(ex, income[c], outcome[c])
       IN  IF shell \in {"iterable", "anyio"}
           THEN /\ ex' = e1
                /\ pc' = [pc EXCEPT ![c] = "handle"]
                /\ UNCHANGED <<lock, income, outcome, replay, handler, ops, before, first,
                               last, returns, callers, machine, observer, shell, input,
                               outs, tx, attrs, mirror, registry>>
           ELSE IF outs[c] # <<>>
           THEN Yield(c, Head(outs[c]), Tail(outs[c])) /\ ex' = e1
           ELSE /\ AfterIncome(c, finish_state(e1, income[c]))
                /\ UNCHANGED <<replay, first, callers, machine, observer, shell, tx, attrs, mirror, registry>>

\* the consumer closes the generator suspended at a yield: GeneratorExit is not
\* an Exception, so only the with block of the lock is left
Close(c) ==
    /\ pc[c] = "yielded"
    /\ EndIterable(c, ex, Closed(c))
    /\ UNCHANGED <<replay, first, callers, machine, observer, shell, tx, attrs, mirror, registry>>

\* the handler raises err: ok = handle_state_error(err); if not ok: raise
IterableRaise(c, err) ==
    /\ shell \in {"iterable", "iterable_opt", "iterable_seq"}
    /\ pc[c] = "handle"
    /\ machine = "generic"
    /\ LET r == handle_state_error(ex, err)
       IN  IF r.ok
           THEN AfterIncome(c, r.ex)
           ELSE EndIterable(c, r.ex, Raised(c, err))
    /\ UNCHANGED <<replay, first, callers, machine, observer, shell, tx, attrs, mirror, registry>>

\* the handler of the anyio shell is exhausted: visit_state runs leave_state
AnyioStop(c) ==
    /\ shell = "anyio"
    /\ pc[c] = "handle"
    /\ machine = "generic"
    /\ AnyioAfterTurn(c, leave_state(ex, income[c]))
    /\ UNCHANGED <<first, callers, machine, observer, shell, tx, attrs, mirror, registry>>

\* the handler of the anyio shell raises err in the body of run's loop over
\* process: the exception is not thrown into the suspended process generator,
\* so neither handle_state_error nor leave_state runs
AnyioRaise(c, err) ==
    /\ shell = "anyio"
    /\ pc[c] = "handle"
    /\ machine = "generic"
    /\ EndIterable(c, ex, Raised(c, err))
    /\ UNCHANGED <<replay, first, callers, machine, observer, shell, tx, attrs, mirror, registry>>

Shells == {"unary", "iterable", "iterable_opt", "iterable_seq", "anyio"}

\* the two callers of a shared shell pass the same income object
SharedIncomes == {"i1"}

SharedInputs == {incs \in Inputs : \A i \in 1..Len(incs) : incs[i] \in SharedIncomes}

InitShells ==
    /\ InitShell("S1")
    /\ callers = Callers
    /\ machine = "generic"
    /\ observer = "none"
    /\ shell \in Shells
    /\ tx = NoTransitions
    /\ attrs = NoAttrs
    /\ mirror = NoMirror
    /\ registry = NoRegistry

NextShells ==
    \E c \in Callers :
        \/ \E inc \in SharedIncomes : Run(c, inc)
        \/ \E inc \in SharedIncomes : RunBlocked(c, inc)
        \/ Acquire(c)
        \/ \E incs \in SharedInputs : IterableRun(c, incs)
        \/ \E incs \in SharedInputs : IterableRunBlocked(c, incs)
        \/ IterableAcquire(c)
        \/ HandlerDefer(c)
        \/ HandlerRecall(c)
        \/ HandlerAbort(c)
        \/ \E out \in Outcomes : HandlerReturn(c, out)
        \/ \E err \in Errors : HandlerRaise(c, err)
        \/ RecallNext(c)
        \/ \E out \in Outcomes : HandlerYield(c, out)
        \/ HandlerStop(c)
        \/ \E out \in Outcomes \cup {None} : HandlerReturnOpt(c, out)
        \/ \E seq \in OutcomeSeqs : HandlerReturnSeq(c, seq)
        \/ Resume(c)
        \/ Close(c)
        \/ \E err \in Errors : IterableRaise(c, err)
        \/ AnyioStop(c)
        \/ \E err \in Errors : AnyioRaise(c, err)

SpecShells == InitShells /\ [][NextShells]_vars

\* ------------------------------------------------------------------ stream shells, one consumer
StreamShells == Shells \ {"unary"}

InitStreams ==
    /\ InitShell("S1")
    /\ callers = {"c1"}
    /\ machine = "generic"
    /\ observer = "none"
    /\ shell \in StreamShells
    /\ tx = NoTransitions
    /\ attrs = NoAttrs
    /\ mirror = NoMirror
    /\ registry = NoRegistry

NextStreams ==
    \E c \in Callers :
        \/ \E incs \in SharedInputs : IterableRun(c, incs)
        \/ \E f \in BOOLEAN : HandlerSetState(c, "S2", f)
        \/ HandlerDefer(c)
        \/ HandlerRecall(c)
        \/ HandlerAbort(c)
        \/ \E out \in Outcomes : HandlerYield(c, out)
        \/ HandlerStop(c)
        \/ \E out \in Outcomes \cup {None} : HandlerReturnOpt(c, out)
        \/ \E seq \in OutcomeSeqs : HandlerReturnSeq(c, seq)
        \/ Resume(c)
        \/ Close(c)
        \/ \E err \in Errors : IterableRaise(c, err)
        \/ AnyioStop(c)
        \/ \E err \in Errors : AnyioRaise(c, err)
        \/ RecallNext(c)

SpecStreams == InitStreams /\ [][NextStreams]_vars

\* ------------------------------------------------------------------ TransitionExecutor
MaxTransitions == 3

\* a destinations mapping without entries
NoDestinations == [k \in Incomes |-> None]

ConstantTransition(destination) ==
    [kind |-> "constant", destination |-> destination, condition |-> {}, then |-> None,
     otherwise |-> None, key |-> [i \in Incomes |-> i], destinations |-> NoDestinations,
     default |-> None]

\* condition is the set of incomes the predicate accepts
ConditionalTransition(condition, then, otherwise) ==
    [kind |-> "conditional", destination |-> None, condition |-> condition, then |-> then,
     otherwise |-> otherwise, key |-> [i \in Incomes |-> i],
     destinations |-> NoDestinations, default |-> None]

\* destinations maps a key to a state, or to None where the mapping has no entry
MappingTransition(key, destinations, default) ==
    [kind |-> "mapping", destination |-> None, condition |-> {}, then |-> None,
     otherwise |-> None, key |-> key, destinations |-> destinations, default |-> default]

Transitions ==
    {ConstantTransition(d) : d \in {"S2", "S3"}}
    \cup {ConditionalTransition({i}, th, ot) :
            i \in Incomes, th \in {"S2", "S3"}, ot \in {None, "S1"}}
    \cup {MappingTransition(k, ds, df) :
            k \in {[i \in Incomes |-> i], [i \in Incomes |-> "i1"]},
            ds \in {NoDestinations, [NoDestinations EXCEPT !["i1"] = "S2"]},
            df \in {None, "S3"}}

\* the lists of transitions registered for the key that execute is called with
TransitionLists == UNION {[1..n -> Transitions] : n \in 0..MaxTransitions}

perform_unconditional(transition, inc, ctx) ==
    [ok |-> TRUE,
     context |-> set_state(ctx, IF transition.kind = "constant" THEN transition.destination
                                ELSE IF transition.kind = "conditional" THEN transition.then
                                ELSE transition.default, FALSE)]

\* Transition.perform of the three transition classes
perform(transition, inc, ctx) ==
    CASE transition.kind = "constant" ->
            [ok |-> TRUE, context |-> set_state(ctx, transition.destination, FALSE)]
      [] transition.kind = "conditional" ->
            IF inc \in transition.condition
            THEN [ok |-> TRUE, context |-> set_state(ctx, transition.then, FALSE)]
            ELSE IF transition.otherwise # None
            THEN [ok |-> TRUE, context |-> set_state(ctx, transition.otherwise, FALSE)]
            ELSE [ok |-> FALSE, context |-> ctx]
      [] transition.kind = "mapping" ->
            LET key == transition.key[inc]
                destination == IF transition.destinations[key] # None
                               THEN transition.destinations[key]
                               ELSE transition.default
            IN  IF destination # None
                THEN [ok |-> TRUE, context |-> set_state(ctx, destination, FALSE)]
                ELSE [ok |-> FALSE, context |-> ctx]

RECURSIVE execute_from(_, _, _, _, _)
\* the for loop of execute from position i; performed lists the transitions
\* whose perform has been called
execute_from(transitions, i, inc, ctx, performed) ==
    IF i > Len(transitions)
    THEN [returned |-> 0, context |-> ctx, performed |-> performed]
    ELSE LET r == perform(transitions[i], inc, ctx)
         IN  IF r.ok
             THEN [returned |-> i, context |-> r.context, performed |-> Append(performed, i)]
             ELSE execute_from(transitions, i + 1, inc, r.context, Append(performed, i))

execute_last_match(transitions, inc, ctx) ==
    LET all == [i \in 1..Len(transitions) |-> i]
        matching == {i \in 1..Len(transitions) : perform(transitions[i], inc, ctx).ok}
        l == CHOOSE i \in matching : \A j \in matching : j <= i
    IN  IF matching = {}
        THEN [returned |-> 0, context |-> ctx, performed |-> all]
        ELSE [returned |-> l, context |-> perform(transitions[l], inc, ctx).context,
              performed |-> all]

\* TransitionExecutor.execute: returned is the position of the transition
\* returned, 0 for None
execute(transitions, inc, ctx) == execute_from(transitions, 1, inc, ctx, <<>>)

\* a handler calls execute(key, income, context) on its transition executor
Execute ==
    /\ ~tx.done
    /\ LET r == execute(tx.table, tx.income, ex.context)
       IN  /\ tx' = [tx EXCEPT !.done = TRUE, !.returned = r.returned,
                               !.performed = r.performed]
           /\ ex' = [ex EXCEPT !.context = r.context]
    /\ UNCHANGED <<lock, pc, income, outcome, replay, handler, ops, before, first, last,
                   returns, callers, machine, observer, shell, input, outs, attrs, mirror, registry>>

InitTransitions ==
    /\ InitShell("S1")
    /\ callers = {"c1"}
    /\ machine = "generic"
    /\ observer = "turn"
    /\ shell = "unary"
    /\ tx \in [table : TransitionLists, income : Incomes, done : {FALSE}, returned : {0},
               performed : {<<>>}]
    /\ attrs = NoAttrs
    /\ mirror = NoMirror
    /\ registry = NoRegistry

NextTransitions == Execute

SpecTransitions == InitTransitions /\ [][NextTransitions]_vars

\* ------------------------------------------------------------------ DeclarativeStateMachine
\* the values an instance's attributes range over
Attrs ==
    [nums : UNION {[1..n -> {1}] : n \in 0..MaxNums}, allow_d_to_e : BOOLEAN,
     items : 0..MaxNums, payments : 0..MaxNums, shipment_id : {None, "secret123"},
     value : 0..MaxValue]

\* the conditions of the examples, each as the set of instances it holds of
is_d_to_e_allowed == {a \in Attrs : a.allow_d_to_e}
is_order_empty == {a \in Attrs : a.items = 0}
is_payment_enough == {a \in Attrs : a.payments >= a.items}

\* ConditionBuilder.__invert__ of a when(...) condition: when_not
check_negate(condition) == Attrs \ condition

\* the binary digit of weight 2^k of a natural number
Bit(n, k) == (n \div (2 ^ k)) % 2

\* Python's n & mask on natural numbers below 16
BitAnd(n, mask) ==
    Bit(n, 0) * Bit(mask, 0) + 2 * Bit(n, 1) * Bit(mask, 1)
    + 4 * Bit(n, 2) * Bit(mask, 2) + 8 * Bit(n, 3) * Bit(mask, 3)

\* the properties of ConditionCases: bool(self.__value & k)
val0 == {a \in Attrs : BitAnd(a.value, 0) # 0}
val1 == {a \in Attrs : BitAnd(a.value, 1) # 0}
val2 == {a \in Attrs : BitAnd(a.value, 2) # 0}
val3 == {a \in Attrs : BitAnd(a.value, 3) # 0}
val4 == {a \in Attrs : BitAnd(a.value, 4) # 0}

\* the functions the condition builders build from their operands
check_and(left, right) == left \cap right
check_or(left, right) == left \cup right

check_all_any(operands) == {a \in Attrs : \E i \in 1..Len(operands) : a \in operands[i]}

check_all(operands) == {a \in Attrs : \A i \in 1..Len(operands) : a \in operands[i]}
check_any(operands) == {a \in Attrs : \E i \in 1..Len(operands) : a \in operands[i]}

\* the condition builders: their class and their normalized operands
AllConditionBuilder(operands) == [class |-> "All", operands |-> operands]
AnyConditionBuilder(operands) == [class |-> "Any", operands |-> operands]
AndConditionBuilder(left, right) == [class |-> "And", operands |-> <<left, right>>]
OrConditionBuilder(left, right) == [class |-> "Or", operands |-> <<left, right>>]

\* ConditionBuilder.build of the four classes; _true and _false for no operands
build(builder) ==
    CASE builder.class = "All" ->
            IF builder.operands = <<>> THEN Attrs
            ELSE IF Len(builder.operands) = 1 THEN builder.operands[1]
            ELSE check_all(builder.operands)
      [] builder.class = "Any" ->
            IF builder.operands = <<>> THEN {}
            ELSE IF Len(builder.operands) = 1 THEN builder.operands[1]
            ELSE check_any(builder.operands)
      [] builder.class = "And" -> check_and(builder.operands[1], builder.operands[2])
      [] builder.class = "Or" -> check_or(builder.operands[1], builder.operands[2])

\* TransitionBuilder.when
when(operands) == AllConditionBuilder(operands)

\* builder & other, other being a property: __and__ of the builder's class
builder_and(builder, other) ==
    CASE builder.class = "All" -> AllConditionBuilder(Append(builder.operands, other))
      [] builder.class = "And" -> AllConditionBuilder(Append(builder.operands, other))
      [] OTHER -> AndConditionBuilder(build(builder), other)

\* builder | other, other being a property: __or__ of the builder's class
builder_or(builder, other) ==
    CASE builder.class = "Any" -> AnyConditionBuilder(Append(builder.operands, other))
      [] builder.class = "Or" -> AnyConditionBuilder(Append(builder.operands, other))
      [] OTHER -> OrConditionBuilder(build(builder), other)

\* MethodOptions(transitions, idempotent)
MethodOptions(transitions, idempotent) ==
    [transitions |-> transitions, idempotent |-> idempotent]

\* MethodOptions.idempotent of a method without the idempotent decorator
NoIdempotent == [state |-> None, returns |-> None]

\* IdempotentOptions(state, returns); returns names a getter or is None
IdempotentOptions(state, getter) == [state |-> state, returns |-> getter]

\* the decorated methods of each subclass: per method, the transitions of each source
\* state in declaration order and the idempotent option
methods(m) ==
    CASE m = "PositiveNumberStore" ->
            [open |-> MethodOptions("idle" :> <<ConstantTransition("opened")>>,
                                    IdempotentOptions("opened", None)),
             recover |-> MethodOptions("broken" :> <<ConstantTransition("opened")>>,
                                       IdempotentOptions("opened", None)),
             close |-> MethodOptions(("opened" :> <<ConstantTransition("closed")>>)
                                        @@ ("broken" :> <<ConstantTransition("closed")>>),
                                     IdempotentOptions("closed", "values")),
             extend |-> MethodOptions("opened" :> <<>>, NoIdempotent)]
      [] m = "TransitionCases" ->
            [from_ace_to_bdf |-> MethodOptions(("a" :> <<ConstantTransition("b")>>)
                                                  @@ ("c" :> <<ConstantTransition("d")>>)
                                                  @@ ("e" :> <<ConstantTransition("f")>>),
                                               NoIdempotent),
             from_b_to_c |-> MethodOptions("b" :> <<ConstantTransition("c")>>, NoIdempotent),
             from_d_to_e |-> MethodOptions(
                "d" :> <<ConditionalTransition(is_d_to_e_allowed, "e", None)>>, NoIdempotent)]
      [] m = "OrderController" ->
            [add_order_item |-> MethodOptions("waiting_for_order" :> <<>>, NoIdempotent),
             confirm_order |-> MethodOptions(
                "waiting_for_order" :>
                    <<ConditionalTransition(check_negate(is_order_empty),
                                            "waiting_for_payment", None)>>, NoIdempotent),
             add_order_payment |-> MethodOptions(
                "waiting_for_payment" :>
                    <<ConditionalTransition(is_payment_enough, "processing", None)>>, NoIdempotent),
             ship_order |-> MethodOptions("processing" :> <<ConstantTransition("shipping")>>,
                                          NoIdempotent),
             complete_order |-> MethodOptions(
                "shipping" :> <<ConstantTransition("completed")>>, NoIdempotent)]
      [] m = "ConditionCases" ->
            [evaluate_any_012 |-> MethodOptions(
                "idle" :> <<ConditionalTransition(
                    build(builder_or(builder_or(when(<<val0>>), val1), val2)), "ok", None)>>,
                NoIdempotent),
             evaluate_all_123 |-> MethodOptions(
                "idle" :> <<ConditionalTransition(
                    build(builder_and(builder_and(when(<<val1>>), val2), val3)), "ok", None)>>,
                NoIdempotent)]
      [] m = "OutcomeCases" ->
            [invoke_unary |-> MethodOptions("idle" :> <<ConstantTransition("unary")>>,
                                            NoIdempotent),
             invoke_iterable |-> MethodOptions("idle" :> <<ConstantTransition("iterable")>>,
                                               NoIdempotent)]

\* the arguments the methods are called with
Args(func) ==
    CASE func = "extend" -> {<<1>>, <<-1>>, <<1, -1, 1>>}
      [] func = "add_order_item" -> {<<1>>}
      [] func = "add_order_payment" -> {<<1>>}
      [] func = "complete_order" -> {<<"secret123">>, <<"wrong">>}
      [] OTHER -> {<<>>}

RECURSIVE extend(_, _)
\* PositiveNumberStore.extend: append up to the first negative number, then raise
extend(nums, args) ==
    IF args = <<>>
    THEN [nums |-> nums, raise |-> None]
    ELSE IF Head(args) < 0
    THEN [nums |-> nums, raise |-> ValueError]
    ELSE extend(Append(nums, Head(args)), Tail(args))

\* the undecorated method bodies: the attributes after the call, the value returned
\* and the exception raised
Body(func, args, a) ==
    CASE func = "recover" ->
            [attrs |-> [a EXCEPT !.nums = SelectSeq(@, LAMBDA n : n >= 0)],
             value |-> None, raise |-> None]
      [] func = "extend" ->
            [attrs |-> [a EXCEPT !.nums = extend(@, args).nums],
             value |-> None, raise |-> extend(a.nums, args).raise]
      [] func = "add_order_item" ->
            [attrs |-> [a EXCEPT !.items = @ + args[1]], value |-> None, raise |-> None]
      [] func = "add_order_payment" ->
            [attrs |-> [a EXCEPT !.payments = @ + args[1]], value |-> None, raise |-> None]
      [] func = "ship_order" ->
            [attrs |-> [a EXCEPT !.shipment_id = "secret123"], value |-> "secret123",
             raise |-> None]
      [] func = "complete_order" ->
            [attrs |-> a, value |-> None,
             raise |-> IF args[1] # a.shipment_id THEN ValueError ELSE None]
      [] OTHER -> [attrs |-> a, value |-> None, raise |-> None]

\* the value getters of the examples; _none when no getter is given
returns_value(getter, a) == IF getter = "values" THEN a.nums ELSE None

normalize_method_always(m, func, args, state, a) ==
    LET options == methods(m)[func]
        b == Body(func, args, a)
    IN  IF options.idempotent = NoIdempotent
        THEN [attrs |-> b.attrs, value |-> b.value, raise |-> b.raise, bodies |-> 1]
        ELSE [attrs |-> b.attrs, raise |-> b.raise, bodies |-> 1,
              value |-> IF b.raise # None THEN None
                        ELSE returns_value(options.idempotent.returns, b.attrs)]

\* the function __normalize_method puts in place of a method: the method itself,
\* or a wrapper that skips the body in the idempotent state and returns returns(self)
normalize_method(m, func, args, state, a) ==
    LET options == methods(m)[func]
        b == Body(func, args, a)
    IN  IF options.idempotent = NoIdempotent
        THEN [attrs |-> b.attrs, value |-> b.value, raise |-> b.raise, bodies |-> 1]
        ELSE IF state # options.idempotent.state
        THEN [attrs |-> b.attrs, raise |-> b.raise, bodies |-> 1,
              value |-> IF b.raise # None THEN None
                        ELSE returns_value(options.idempotent.returns, b.attrs)]
        ELSE [attrs |-> a, raise |-> None, bodies |-> 0,
              value |-> returns_value(options.idempotent.returns, a)]

sources_any(m, func) == {s.name : s \in states(m)}

\* __wrap_method: the states a method may be called in
sources(m, func) ==
    LET options == methods(m)[func]
    IN  DOMAIN options.transitions
        \cup (IF options.idempotent # NoIdempotent THEN {options.idempotent.state} ELSE {})

\* the transitions __setup_methods adds under the key (func, source)
transitions(m, func, source) ==
    LET options == methods(m)[func]
    IN  IF source \in DOMAIN options.transitions THEN options.transitions[source] ELSE <<>>

\* how a method call ended, what was called and how often its body was executed
MethodResult(c, func, args, kind, value, bodies) ==
    [caller |-> c, kind |-> kind, value |-> value, func |-> func, args |-> args,
     bodies |-> bodies]

\* the wrapper of __wrap_method around __run, for a method that is not a generator:
\* the executor and the attributes after the call, and its result
wrapper(c, m, func, args, e, a) ==
    LET current == current_state(e)
        en == enter_state(e, "self")
        r == normalize_method(m, func, args, current, a)
        e1 == handle_outcome(en.ex, "self", r.value)
        t == execute(transitions(m, func, current), r.attrs, e1.context)
        e2 == leave_state([e1 EXCEPT !.context = t.context], "self")
    IN  IF current \notin sources(m, func)
        THEN [ex |-> e, attrs |-> a,
              result |-> MethodResult(c, func, args, "raise", InvalidStateError, 0)]
        ELSE IF en.raise # None
        THEN [ex |-> en.ex, attrs |-> a,
              result |-> MethodResult(c, func, args, "raise", en.raise, 0)]
        ELSE IF r.raise # None
        THEN [ex |-> handle_state_error(en.ex, r.raise).ex, attrs |-> r.attrs,
              result |-> MethodResult(c, func, args, "raise", r.raise, r.bodies)]
        ELSE [ex |-> e2, attrs |-> r.attrs,
              result |-> MethodResult(c, func, args, "return", r.value, r.bodies)]

\* caller c calls a decorated method; the instance lock is held for the whole call
MethodCall(c, func, args) ==
    /\ shell = "declarative"
    /\ lock_free(lock)
    /\ func \in DOMAIN methods(machine)
    /\ args \in Args(func)
    /\ LET w == wrapper(c, machine, func, args, Window(ex), attrs)
       IN  /\ w.attrs \in Attrs
           /\ ex' = w.ex
           /\ attrs' = w.attrs
           /\ last' = w.result
           /\ before' = [context |-> ex.context, pending |-> ex.pending, attrs |-> attrs]
    /\ UNCHANGED <<lock, pc, income, outcome, replay, handler, ops, first, returns, callers,
                   machine, observer, shell, input, outs, tx, mirror, registry>>

\* the client assigns the public attribute of TransitionCases between two calls
SetAllowDToE(v) ==
    /\ shell = "declarative"
    /\ machine = "TransitionCases"
    /\ attrs.allow_d_to_e # v
    /\ attrs' = [attrs EXCEPT !.allow_d_to_e = v]
    /\ UNCHANGED <<ex, lock, pc, income, outcome, replay, handler, ops, before, first, last,
                   returns, callers, machine, observer, shell, input, outs, tx, mirror, registry>>

InitDeclarative ==
    /\ machine \in DeclarativeMachines
    /\ InitShell(initial(machine))
    /\ callers = {"c1"}
    /\ observer = "turn"
    /\ shell = "declarative"
    /\ tx = NoTransitions
    /\ attrs \in {[NoAttrs EXCEPT !.allow_d_to_e = v, !.value = n] :
                    v \in IF machine = "TransitionCases" THEN BOOLEAN ELSE {FALSE},
                    n \in IF machine = "ConditionCases" THEN 0..MaxValue ELSE {0}}
    /\ mirror = NoMirror
    /\ registry = NoRegistry

NextDeclarative ==
    \/ \E c \in callers, func \in {"open", "recover", "close", "extend", "from_ace_to_bdf",
                                   "from_b_to_c", "from_d_to_e", "add_order_item",
                                   "confirm_order", "add_order_payment", "ship_order",
                                   "complete_order", "evaluate_any_012",
                                   "evaluate_all_123"} :
          \E args \in Args(func) : MethodCall(c, func, args)
    \/ \E v \in BOOLEAN : SetAllowDToE(v)

SpecDeclarative == InitDeclarative /\ [][NextDeclarative]_vars

\* ------------------------------------------------------------------ generator methods
\* OutcomeCases.invoke_iterable(n): for i in range(n): yield i + 1
invoke_iterable(n) == [i \in 1..n |-> i]

\* for outcome in iterfunc(self, ...): the wrapper of a generator method pulls the
\* next outcome of the body, rest being what the body has still to yield, and
\* yields it; or the body is exhausted, __run executes the transitions of
\* (func, source) and visit_state runs leave_state
GeneratorPull(c, e, rest) ==
    IF rest # <<>>
    THEN /\ ex' = e
         /\ pc' = [pc EXCEPT ![c] = "yielded"]
         /\ outcome' = [outcome EXCEPT ![c] = Head(rest)]
         /\ outs' = [outs EXCEPT ![c] = Tail(rest)]
         /\ lock' = c
         /\ income' = [income EXCEPT ![c] = "self"]
         /\ last' = NoResult
         /\ UNCHANGED <<handler, returns, input, before, ops>>
    ELSE LET t == execute(transitions(machine, "invoke_iterable", current_state(e)),
                          attrs, e.context)
         IN  EndIterable(c, leave_state([e EXCEPT !.context = t.context], "self"),
                         Returned(c, None))

\* the first next() on invoke_iterable(n): __run takes the lock, checks the current
\* state against the sources and enters visit_state; the wrapper pulls
GeneratorCall(c, n) ==
    /\ shell = "declarative"
    /\ machine = "OutcomeCases"
    /\ c \in callers
    /\ pc[c] = "idle"
    /\ lock_free(lock)
    /\ IF current_state(ex) \notin sources(machine, "invoke_iterable")
       THEN EndIterable(c, Window(ex), Raised(c, InvalidStateError))
       ELSE GeneratorPull(c, enter_state(Window(ex), "self").ex, invoke_iterable(n))
    /\ UNCHANGED <<replay, first, callers, machine, observer, shell, tx, attrs, mirror,
                   registry>>

\* a later next(): the wrapper resumes after its yield with handle_outcome and pulls
GeneratorResume(c) ==
    /\ shell = "declarative"
    /\ pc[c] = "yielded"
    /\ GeneratorPull(c, handle_outcome(ex, "self", outcome[c]), outs[c])
    /\ UNCHANGED <<replay, first, callers, machine, observer, shell, tx, attrs, mirror,
                   registry>>

\* ------------------------------------------------------------------ outcome streams, one consumer
OutcomeShells == {"iterable", "iterable_opt", "declarative"}

InitOutcomes ==
    /\ shell \in OutcomeShells
    /\ machine = IF shell = "declarative" THEN "OutcomeCases" ELSE "generic"
    /\ InitShell(IF shell = "declarative" THEN initial(machine) ELSE "S1")
    /\ callers = {"c1"}
    /\ observer = "turn"
    /\ tx = NoTransitions
    /\ attrs = NoAttrs
    /\ mirror = NoMirror
    /\ registry = NoRegistry

NextOutcomes ==
    \E c \in Callers :
        \/ \E incs \in SharedInputs : shell # "declarative" /\ IterableRun(c, incs)
        \/ \E f \in BOOLEAN : HandlerSetState(c, "S2", f)
        \/ HandlerDefer(c)
        \/ HandlerAbort(c)
        \/ \E out \in Outcomes : HandlerYield(c, out)
        \/ HandlerStop(c)
        \/ \E out \in Outcomes \cup {None} : HandlerReturnOpt(c, out)
        \/ shell # "declarative" /\ Resume(c)
        \/ Close(c)
        \/ \E err \in Errors : IterableRaise(c, err)
        \/ \E n \in 0..MaxOutcomes : GeneratorCall(c, n)
        \/ GeneratorResume(c)

SpecOutcomes == InitOutcomes /\ [][NextOutcomes]_vars

\* ------------------------------------------------------------------ AsyncStateMachineExecutor
\* where the asynchronous subscriber is awaited the coroutine waits for the
\* notification to complete before it goes on
async_reset_state(e) ==
    IF ~can_transit(e.context)
    THEN [ok |-> FALSE, ex |-> e]
    ELSE LET tr == transit(e.context)
             e1 == [e EXCEPT !.context = tr.context]
         IN  [ok |-> tr.destination # None,
              ex |-> IF tr.destination # None
                     THEN Notify(e1, Ev("transition", tr.source, tr.destination, None))
                     ELSE e1]

async_enter_state(e, inc) ==
    IF is_aborted(e)
    THEN [raise |-> AbortedStateReachedError, ex |-> e]
    ELSE LET e1 == IF e.context.initial
                   THEN [Notify(e, Ev("initial", e.context.source, None, None))
                            EXCEPT !.context.initial = FALSE]
                   ELSE e
             e2 == IF ~e1.context.entered
                   THEN [Notify(e1, Ev("state_entered", e1.context.source, inc, None))
                            EXCEPT !.context.entered = TRUE]
                   ELSE e1
         IN  [raise |-> None, ex |-> e2]

async_handle_outcome(e, inc, out) ==
    Notify(e, Ev("state_outcome", e.context.source, inc, out))

async_leave_state_no_left(e, inc) ==
    LET e1 == IF e.context.deferred
              THEN [Notify([e EXCEPT !.pending = Append(@, inc)],
                           Ev("income_deferred", current_state(e), inc, None))
                       EXCEPT !.context.deferred = FALSE]
              ELSE e
        e3 == async_reset_state(e1).ex
    IN  IF is_aborted(e3)
        THEN Notify(e3, Ev("final", current_state(e3), None, None))
        ELSE e3

async_leave_state(e, inc) ==
    LET e1 == IF e.context.deferred
              THEN [Notify([e EXCEPT !.pending = Append(@, inc)],
                           Ev("income_deferred", current_state(e), inc, None))
                       EXCEPT !.context.deferred = FALSE]
              ELSE e
        e2 == IF can_transit(e1.context)
              THEN Notify(e1, Ev("state_left", current_state(e1), inc, None))
              ELSE e1
        e3 == async_reset_state(e2).ex
    IN  IF is_aborted(e3)
        THEN Notify(e3, Ev("final", current_state(e3), None, None))
        ELSE e3

async_handle_state_error(e, err) ==
    LET e1 == Notify(e, Ev("state_failed", current_state(e), err, None))
    IN  IF Fallback(err) = None
        THEN [ok |-> FALSE, ex |-> e1]
        ELSE async_reset_state([e1 EXCEPT !.context = set_state(@, Fallback(err), FALSE)])

\* the loop condition of AsyncStateMachineExecutor.recall
async_can_recall(e) == ~is_aborted(e) /\ e.context.recalled /\ e.pending # <<>>

\* one iteration of AsyncStateMachineExecutor.recall up to the yield
async_recall(e) ==
    LET inc == Last(e.pending)
        e1 == Notify([e EXCEPT !.pending = Front(@)],
                     Ev("income_recalled", current_state(e), inc, None))
        e2 == [e1 EXCEPT !.context.recalled = FALSE]
    IN  [income |-> inc, entered |-> async_enter_state(e2, inc)]

\* ------------------------------------------------------------------ sync and async side by side
\* the Context calls the handlers make
Calls ==
    {<<"set_state", "S2", FALSE>>, <<"set_state", "S3", TRUE>>, OpDefer, OpRecall,
     <<"abort", None, FALSE>>}

\* beside a mirror the subscriber keeps the notifications of the current step of run:
\* entering a turn, or ending one and entering the replay that follows it

\* a machine in run: its executor, its position in run, the income of the turn,
\* whether the turn is a replay, run's local outcome and how the last run ended
Machine(e, p, inc, rep, out, res) ==
    [ex |-> e, pc |-> p, income |-> inc, replay |-> rep, outcome |-> out, last |-> res]

\* run has ended with res
Idle(e, res) == Machine(e, "idle", None, FALSE, None, res)

\* UnaryStateMachine.run up to the call of handle
UnaryEnter(mc, inc) ==
    LET en == enter_state(Window(mc.ex), inc)
    IN  IF en.raise # None
        THEN Idle(en.ex, Raised("c1", en.raise))
        ELSE Machine(en.ex, "handle", inc, FALSE, None, mc.last)

\* the handler calls a method of the Context it was given
ContextCall(mc, op) == [mc EXCEPT !.ex.context = ApplyOps(@, <<op>>)]

\* UnaryStateMachine.run from the return of handle to the next call of handle or
\* to the return of run
UnaryReturn(mc, out) ==
    LET e2 == leave_state(handle_outcome(Window(mc.ex), mc.income, out), mc.income)
        r == recall(e2)
    IN  IF can_recall(e2)
        THEN Machine(r.entered.ex, "handle", r.income, TRUE, out, mc.last)
        ELSE Idle(e2, Returned("c1", out))

\* UnaryStateMachine.run when handle raises
UnaryRaise(mc, err) ==
    IF mc.replay
    THEN Idle(Window(mc.ex), Raised("c1", err))
    ELSE Idle(handle_state_error(Window(mc.ex), err).ex, Raised("c1", err))

\* AsyncUnaryStateMachine.run up to the await of handle
AsyncUnaryEnter(mc, inc) ==
    LET en == async_enter_state(Window(mc.ex), inc)
    IN  IF en.raise # None
        THEN Idle(en.ex, Raised("c1", en.raise))
        ELSE Machine(en.ex, "handle", inc, FALSE, None, mc.last)

\* AsyncUnaryStateMachine.run from the return of handle to the next await of handle
\* or to the return of run
AsyncUnaryReturn(mc, out) ==
    LET e2 == async_leave_state(async_handle_outcome(Window(mc.ex), mc.income, out),
                                mc.income)
        r == async_recall(e2)
    IN  IF async_can_recall(e2)
        THEN Machine(r.entered.ex, "handle", r.income, TRUE, out, mc.last)
        ELSE Idle(e2, Returned("c1", out))

\* AsyncUnaryStateMachine.run when handle raises
AsyncUnaryRaise(mc, err) ==
    IF mc.replay
    THEN Idle(Window(mc.ex), Raised("c1", err))
    ELSE Idle(async_handle_state_error(Window(mc.ex), err).ex, Raised("c1", err))

\* the synchronous machine as a record
Sync == Machine(ex, pc["c1"], income["c1"], replay["c1"], outcome["c1"], last)

\* both machines take a step: the synchronous one to sm, the asynchronous one to am
Both(sm, am) ==
    /\ shell = "unary"
    /\ mirror.pc # None
    /\ ex' = sm.ex
    /\ pc' = [pc EXCEPT !["c1"] = sm.pc]
    /\ income' = [income EXCEPT !["c1"] = sm.income]
    /\ replay' = [replay EXCEPT !["c1"] = sm.replay]
    /\ outcome' = [outcome EXCEPT !["c1"] = sm.outcome]
    /\ last' = sm.last
    /\ mirror' = am
    /\ UNCHANGED <<lock, handler, first, returns, callers, machine, observer, shell,
                   input, outs, tx, attrs, registry>>

\* the methods of Context, and the ones among them the handler has called in the
\* turn once it calls name
ContextMethods == <<"set_state", "defer", "recall", "abort">>

Noted(called, name) ==
    SelectSeq(ContextMethods,
              LAMBDA n : n = name \/ \E i \in 1..Len(called) : called[i] = n)

\* run(inc) is called on both machines
MirrorRun(inc) ==
    /\ pc["c1"] = "idle"
    /\ Both(UnaryEnter(Sync, inc), AsyncUnaryEnter(mirror, inc))
    /\ ops' = <<>>
    /\ before' = Snapshot(StateMachineExecutor("S1"))

\* the handlers of both machines make the same Context call
MirrorCall(op) ==
    /\ pc["c1"] = "handle"
    /\ op[1] = "defer" => Len(ex.pending) < MaxPending
    /\ Both(ContextCall(Sync, op),
            IF mirror.pc = "handle" THEN ContextCall(mirror, op) ELSE mirror)
    /\ ops' = Noted(ops, op[1])
    /\ UNCHANGED before

\* the handlers of both machines return out
MirrorReturn(out) ==
    /\ pc["c1"] = "handle"
    /\ Both(UnaryReturn(Sync, out),
            IF mirror.pc = "handle" THEN AsyncUnaryReturn(mirror, out) ELSE mirror)
    /\ ops' = <<>>
    /\ UNCHANGED before

\* the handlers of both machines raise err; until the next call of run, before is
\* the executor as the raising handler left it
MirrorRaise(err) ==
    /\ pc["c1"] = "handle"
    /\ Both(UnaryRaise(Sync, err),
            IF mirror.pc = "handle" THEN AsyncUnaryRaise(mirror, err) ELSE mirror)
    /\ ops' = <<>>
    /\ before' = Snapshot(ex)

InitMirror ==
    /\ InitShell("S1")
    /\ callers = {"c1"}
    /\ machine = "generic"
    /\ observer = "turn"
    /\ shell = "unary"
    /\ tx = NoTransitions
    /\ attrs = NoAttrs
    /\ mirror = Idle(StateMachineExecutor("S1"), NoResult)
    /\ registry = NoRegistry

NextMirror ==
    \/ \E inc \in Incomes : MirrorRun(inc)
    \/ \E op \in Calls : MirrorCall(op)
    \/ \E out \in Outcomes : MirrorReturn(out)
    \/ \E err \in Errors : MirrorRaise(err)

SpecMirror == InitMirror /\ [][NextMirror]_vars

\* ------------------------------------------------------------------ AsyncStateMachineSubscriberRegistry
MaxSubscribers == 3

Subscribers == 1..MaxSubscribers

\* the notify_* methods of the registry
NotifyEvents ==
    {"initial", "state_entered", "income_deferred", "income_recalled", "state_outcome",
     "state_left", "state_failed", "transition", "final"}

\* a subscriber's coroutine for one event: how often its notify_* was entered and
\* where it stands
NoTask == [entered |-> 0, at |-> "none"]

\* asyncio.gather(*(sub.notify_x(...) for sub in self.__subscribers)): one coroutine
\* per subscriber, all scheduled before gather is awaited
gather(subs) ==
    [s \in Subscribers |-> IF s \in subs THEN [entered |-> 0, at |-> "scheduled"] ELSE NoTask]

gather_done_any(tasks, subs) == \E s \in subs : tasks[s].at = "done"

\* the awaited gather has its result once every coroutine has finished
gather_done(tasks, subs) == \A s \in subs : tasks[s].at = "done"

\* the awaited gather raises as soon as one coroutine has raised
gather_failed(tasks, subs) == \E s \in subs : tasks[s].at = "failed"

\* no coroutine of an earlier call is still on the event loop
quiet(r) == \A s \in Subscribers : r.tasks[s].at \notin {"scheduled", "running"}

InRegistry == shell = "registry"

\* register(sub)
Register(s) ==
    /\ InRegistry
    /\ registry' = [registry EXCEPT !.subscribers = @ \cup {s}]
    /\ UNCHANGED <<ex, lock, pc, income, outcome, replay, handler, ops, before, first,
                   last, returns, callers, machine, observer, shell, input, outs, tx,
                   attrs, mirror>>

\* unregister(sub)
Unregister(s) ==
    /\ InRegistry
    /\ registry' = [registry EXCEPT !.subscribers = @ \ {s}]
    /\ UNCHANGED <<ex, lock, pc, income, outcome, replay, handler, ops, before, first,
                   last, returns, callers, machine, observer, shell, input, outs, tx,
                   attrs, mirror>>

\* await registry.notify_x(...): returns at once without subscribers, else gathers
RegistryNotify(event) ==
    /\ InRegistry
    /\ registry.pc # "gather"
    /\ quiet(registry)
    /\ registry' =
          IF registry.subscribers = {}
          THEN [registry EXCEPT !.pc = "returned", !.event = event, !.targets = {},
                                !.tasks = gather({})]
          ELSE [registry EXCEPT !.pc = "gather", !.event = event,
                                !.targets = registry.subscribers,
                                !.tasks = gather(registry.subscribers)]
    /\ UNCHANGED <<ex, lock, pc, income, outcome, replay, handler, ops, before, first,
                   last, returns, callers, machine, observer, shell, input, outs, tx,
                   attrs, mirror>>

\* the event loop runs a scheduled coroutine: the subscriber's notify_x is entered
TaskStart(s) ==
    /\ InRegistry
    /\ registry.tasks[s].at = "scheduled"
    /\ registry' = [registry EXCEPT !.tasks[s] = [entered |-> @.entered + 1, at |-> "running"]]
    /\ UNCHANGED <<ex, lock, pc, income, outcome, replay, handler, ops, before, first,
                   last, returns, callers, machine, observer, shell, input, outs, tx,
                   attrs, mirror>>

\* a subscriber's notify_x returns (how) or raises
TaskEnd(s, how) ==
    /\ InRegistry
    /\ registry.tasks[s].at = "running"
    /\ registry' = [registry EXCEPT !.tasks[s].at = how]
    /\ UNCHANGED <<ex, lock, pc, income, outcome, replay, handler, ops, before, first,
                   last, returns, callers, machine, observer, shell, input, outs, tx,
                   attrs, mirror>>

\* the awaited gather is over and notify_x returns
NotifyReturn ==
    /\ InRegistry
    /\ registry.pc = "gather"
    /\ gather_done(registry.tasks, registry.targets)
    /\ registry' = [registry EXCEPT !.pc = "returned"]
    /\ UNCHANGED <<ex, lock, pc, income, outcome, replay, handler, ops, before, first,
                   last, returns, callers, machine, observer, shell, input, outs, tx,
                   attrs, mirror>>

\* the awaited gather raises a subscriber's exception out of notify_x
NotifyRaise ==
    /\ InRegistry
    /\ registry.pc = "gather"
    /\ gather_failed(registry.tasks, registry.targets)
    /\ registry' = [registry EXCEPT !.pc = "raised"]
    /\ UNCHANGED <<ex, lock, pc, income, outcome, replay, handler, ops, before, first,
                   last, returns, callers, machine, observer, shell, input, outs, tx,
                   attrs, mirror>>

InitRegistry ==
    /\ InitShell("S1")
    /\ callers = {}
    /\ machine = "generic"
    /\ observer = "none"
    /\ shell = "registry"
    /\ tx = NoTransitions
    /\ attrs = NoAttrs
    /\ mirror = NoMirror
    /\ registry \in {[subscribers |-> subs, pc |-> "idle", event |-> None, targets |-> {},
                      tasks |-> gather({})] : subs \in SUBSET Subscribers}

NextRegistry ==
    \/ \E s \in Subscribers : Register(s)
    \/ \E s \in Subscribers : Unregister(s)
    \/ \E event \in NotifyEvents : RegistryNotify(event)
    \/ \E s \in Subscribers : TaskStart(s)
    \/ \E s \in Subscribers : TaskEnd(s, "done")
    \/ \E s \in Subscribers : TaskEnd(s, "failed")
    \/ NotifyReturn
    \/ NotifyRaise

SpecRegistry == InitRegistry /\ [][NextRegistry]_vars

\* ------------------------------------------------------------------ properties
IsEv(ev, kind) == ev[1] = kind
EventsOf(e, kind) == SelectSeq(e.events, LAMBDA ev : IsEv(ev, kind))
SetStates(trace) == SelectSeq(trace, LAMBDA op : op[1] = "set_state")

\* the turn that ran last returned normally and its leave-processing is complete
TurnReturned == last.kind = "return" \/ \E c \in Callers : pc[c] = "recall"

\* C1: once the machine is aborted and no run is in flight, every step (a run
\* call) raises AbortedStateReachedError: no handler is invoked, no notification
\* is emitted, current_state and the pending queue stay as they are
C1_AbortedVisitRaises ==
    [][(is_aborted(ex) /\ lock = None) =>
          /\ \A c \in Callers : pc'[c] # "handle" /\ handler'[c] = None
          /\ last' # last => \E c \in Callers : last' = Raised(c, AbortedStateReachedError)
          /\ ex'.context = ex.context
          /\ ex'.pending = ex.pending
          /\ ex'.events = Window(ex).events]_vars

C1_Witness ==
    /\ last.kind = "raise"
    /\ last.value = AbortedStateReachedError
    /\ is_aborted(ex)
    /\ ex.pending # <<>>

\* C2: after a turn that returned normally and called set_state at least once,
\* current_state is the destination of the last call; while the handler runs
\* current_state is still the state the turn began in, and the only transition
\* notified in the turn is the one to the last destination
C2_LastSetStateWins ==
    /\ \A c \in Callers : pc[c] = "handle" => current_state(ex) = before.context.source
    /\ (TurnReturned /\ SetStates(ops) # <<>>) =>
          /\ current_state(ex) = Last(SetStates(ops))[2]
          /\ \A i \in 1..Len(ex.events) :
                IsEv(ex.events[i], "transition") =>
                    ex.events[i] = Ev("transition", before.context.source,
                                      Last(SetStates(ops))[2], None)

C2_Witness ==
    /\ TurnReturned
    /\ Len(SetStates(ops)) = 2
    /\ ops[1][2] # ops[2][2]
    /\ ops[1][2] # before.context.source
    /\ ops[2][2] # before.context.source
    /\ current_state(ex) = ops[2][2]

\* C4: the income replayed after a turn is the one popped from the tail of the
\* pending queue and it is handled by the state that is current after that
\* turn's transition (the destination of the transition, when there was one)
C4_ReplayInNewState ==
    [][\A c \in Callers :
          (pc[c] = "recall" /\ pc'[c] = "handle") =>
              /\ handler'[c] = current_state(ex)
              /\ income'[c] = Last(ex.pending)
              /\ \A i \in 1..Len(ex.events) :
                    IsEv(ex.events[i], "transition") => handler'[c] = ex.events[i][3]]_vars

C4_Witness ==
    \E c \in Callers :
        /\ pc[c] = "handle"
        /\ replay[c]
        /\ before.context.source = "S2"
        /\ handler[c] = "S2"
        /\ ex.events = <<Ev("income_recalled", "S2", "i1", None),
                         Ev("state_entered", "S2", "i1", None)>>

C8_Original == last.kind = "return" => last.value = first

\* C8: run returns the triggering income's outcome when no replay happens in the
\* run, and the outcome of the last replayed turn otherwise; the outcome of every
\* turn is reported once through handle_outcome
C8_ReturnsLastTurnOutcome ==
    last.kind = "return" =>
        /\ ~replay[last.caller] => last.value = first
        /\ Len(EventsOf(ex, "state_outcome")) = 1
        /\ EventsOf(ex, "state_outcome")[1][4] = last.value

C8_Witness ==
    /\ last.kind = "return"
    /\ replay[last.caller]
    /\ last.value # first


\* the incomes of the run calls made so far, and the values they returned
IncomesOf(rs) == [i \in 1..Len(rs) |-> rs[i].income]
ValuesOf(rs) == [i \in 1..Len(rs) |-> rs[i].result.value]
AllReturned(rs) == \A i \in 1..Len(rs) : rs[i].result.kind = "return"

TrafficNext(state) ==
    CASE state = "Green" -> "Yellow" [] state = "Yellow" -> "Red" [] state = "Red" -> "Green"

RECURSIVE ExpectedTraffic(_, _, _)
\* the notifications C6 describes for the traffic light in `state`, entered or
\* not, fed the events incs: state_entered on the first visit, one state_outcome
\* per income, and state_left then transition in a turn that changes the state
ExpectedTraffic(incs, state, entered) ==
    IF incs = <<>> THEN <<>>
    ELSE LET inc == Head(incs)
             cycle == inc = "CycleEvent"
         IN  (IF entered THEN <<>> ELSE <<Ev("state_entered", state, inc, None)>>)
             \o <<Ev("state_outcome", state, inc, Handle(state, inc).outcome)>>
             \o (IF cycle
                 THEN <<Ev("state_left", state, inc, None),
                        Ev("transition", state, TrafficNext(state), None)>>
                 ELSE <<>>)
             \o ExpectedTraffic(Tail(incs), IF cycle THEN TrafficNext(state) ELSE state, ~cycle)

\* C6: between run calls the subscriber of the traffic light machine has received
\* exactly: initial(Green) once, then per state state_entered on its first visit,
\* one state_outcome per income, and state_left(old), transition(old, new) only in
\* a turn that changes the state; state_entered(new) comes with the next income
C6_NotificationOrder ==
    (machine = "traffic" /\ lock = None) =>
        ex.events = IF returns = <<>> THEN <<>>
                    ELSE <<Ev("initial", "Green", None, None)>>
                         \o ExpectedTraffic(IncomesOf(returns), "Green", FALSE)

C6_Witness ==
    /\ machine = "traffic"
    /\ lock = None
    /\ IncomesOf(returns) = <<"CycleEvent", "GoEvent", "CycleEvent", "CycleEvent">>
    /\ [i \in 1..Len(ex.events) |-> <<ex.events[i][2], ex.events[i][1]>>] =
          << <<"Green", "initial">>, <<"Green", "state_entered">>,
             <<"Green", "state_outcome">>, <<"Green", "state_left">>,
             <<"Green", "transition">>, <<"Yellow", "state_entered">>,
             <<"Yellow", "state_outcome">>, <<"Yellow", "state_outcome">>,
             <<"Yellow", "state_left">>, <<"Yellow", "transition">>,
             <<"Red", "state_entered">>, <<"Red", "state_outcome">>,
             <<"Red", "state_left">>, <<"Red", "transition">> >>

\* C9: run returns the outcome of the last turn executed in that run (the last
\* state_outcome notified), which is the triggering turn's when nothing was
\* replayed; the auth machine fed data, password, username returns
\* "Welcome John, processing data: ok" from the third run
C9_ReturnsLastTurnOfRun ==
    /\ last.kind = "return" =>
          /\ last.value = Last(EventsOf(ex, "state_outcome"))[4]
          /\ ~replay[last.caller] => last.value = first
    /\ (/\ machine = "auth"
        /\ IncomesOf(returns) = <<"{data: ok}", "{password: secret}", "{username: John}">>
        /\ lock = None) =>
          ValuesOf(returns) = <<"Username is missing.", "Username is missing.",
                                "Welcome John, processing data: ok">>

C9_Witness ==
    /\ machine = "auth"
    /\ IncomesOf(returns) = <<"{data: ok}", "{password: secret}", "{username: John}">>
    /\ lock = None
    /\ AllReturned(returns)
    /\ last.value = "Welcome John, processing data: ok"
    /\ replay[last.caller]
    /\ first = "Username 'John' accepted."

AuthScenario ==
    /\ machine = "auth"
    /\ IncomesOf(returns) = <<"{data: x}", "{username: John}", "{password: secret}">>
    /\ lock = None

\* C10 as stated: the second run returns "Username is missing."
C10_Original ==
    AuthScenario =>
        ValuesOf(returns) = <<"Username is missing.", "Username is missing.",
                              "Welcome John, processing data: x">>

\* C10: for the auth machine driven by {data: x}, {username: John},
\* {password: secret} the three run calls return "Username is missing.",
\* "Password is missing.", "Welcome John, processing data: x"
C10_AuthScenarioOutcomes ==
    AuthScenario =>
        /\ AllReturned(returns)
        /\ ValuesOf(returns) = <<"Username is missing.", "Password is missing.",
                                 "Welcome John, processing data: x">>

C10_Witness ==
    /\ AuthScenario
    /\ current_state(ex) = "Authenticated"
    /\ ex.pending = <<>>
    /\ last.value = "Welcome John, processing data: x"

\* C3: execute performs the transitions of the list in order up to and
\* including the first one whose perform returns true and returns that one;
\* the requested destination is the one that transition set; when none matches
\* every transition was tried, None is returned and the context is unchanged
C3_FirstMatchOnly ==
    tx.done =>
        LET matching == {i \in 1..Len(tx.table) :
                            perform(tx.table[i], tx.income, before.context).ok}
            f == CHOOSE i \in matching : \A j \in matching : i <= j
        IN  IF matching = {}
            THEN /\ tx.returned = 0
                 /\ tx.performed = [i \in 1..Len(tx.table) |-> i]
                 /\ ex.context = before.context
                 /\ ex.context.destination = None
            ELSE /\ tx.returned = f
                 /\ tx.performed = [i \in 1..f |-> i]
                 /\ ex.context.destination =
                        perform(tx.table[f], tx.income, before.context).context.destination

C3_Witness ==
    /\ tx.done
    /\ Len(tx.table) = 3
    /\ ~perform(tx.table[1], tx.income, before.context).ok
    /\ perform(tx.table[2], tx.income, before.context).ok
    /\ perform(tx.table[3], tx.income, before.context).ok
    /\ perform(tx.table[2], tx.income, before.context).context.destination = "S2"
    /\ perform(tx.table[3], tx.income, before.context).context.destination = "S3"
    /\ tx.returned = 2
    /\ ex.context.destination = "S2"

\* C7: a caller is inside run (handling a turn, between replayed turns, or
\* suspended at a yield) only while it holds the instance lock, so at most one
\* run is in progress and no turn of another run begins before it has ended
C7_RunsMutuallyExclusive ==
    /\ \A c \in Callers : pc[c] \in {"handle", "recall", "yielded"} => lock = c
    /\ \A c, d \in Callers :
          (c # d /\ pc[c] \in {"handle", "recall", "yielded"}) =>
              pc[d] \in {"idle", "lock"}

C7_Witness ==
    \E c, d \in Callers :
        /\ c # d
        /\ pc[d] = "lock"
        /\ shell = "iterable_seq"
        /\ pc[c] = "yielded"
        /\ input[c] # <<>>
        /\ outs[c] # <<>>

\* C11: whenever a run call has ended (returned or raised) in a turn that left
\* the machine aborted, the subscriber got final(state) exactly once in that turn
C11_Original ==
    (/\ lock = None
     /\ last.kind \in {"return", "raise"}
     /\ last.value # AbortedStateReachedError
     /\ is_aborted(ex)) =>
        Len(EventsOf(ex, "final")) = 1

\* C12: in every turn, if current_state differs from the state the turn began
\* in, the subscriber got exactly one transition notification, from that state
\* to the new one; if current_state is the same state, it got neither a
\* transition nor a state_left notification
C12_OneTransitionPerChange ==
    IF current_state(ex) # before.context.source
    THEN EventsOf(ex, "transition") =
            <<Ev("transition", before.context.source, current_state(ex), None)>>
    ELSE EventsOf(ex, "transition") = <<>> /\ EventsOf(ex, "state_left") = <<>>

\* a fallback-induced change overriding the handler's own request, in a machine
\* that has handled a set_state to the current state before
C12_Witness ==
    /\ last.kind = "raise"
    /\ last.value = "E1"
    /\ before.context.source = "S2"
    /\ current_state(ex) = "S3"
    /\ ops = <<<<"set_state", "S2">>>>
    /\ EventsOf(ex, "state_left") = <<>>

\* C13: when a run call ended by raising a handler exception the fallback does
\* not resolve, state_failed was notified for it in that turn, and
\* current_state and the pending queue are as they were when the handler was
\* invoked (for a replayed turn: after the replayed income was popped)
C13_Original ==
    (last.kind = "raise" /\ last.value \in Errors /\ Fallback(last.value) = None) =>
        /\ EventsOf(ex, "state_failed") =
              <<Ev("state_failed", before.context.source, last.value, None)>>
        /\ current_state(ex) = before.context.source
        /\ ex.pending = IF replay[last.caller] THEN Front(before.pending)
                        ELSE before.pending

\* C14: in the iterable and anyio shells, a step that leaves the machine
\* aborted while a run is handling an income either stays within that income's
\* turn or ends the run, and not with AbortedStateReachedError: no later income
\* of the input reaches a handler, and no deferred income is replayed
C14_AbortEndsRun ==
    [][\A c \in Callers :
          (pc[c] \in {"handle", "yielded", "recall"} /\ is_aborted(ex')) =>
              \/ /\ pc'[c] \in {"handle", "yielded"}
                 /\ pc[c] # "recall"
                 /\ income'[c] = income[c]
                 /\ input'[c] = input[c]
              \/ /\ pc'[c] = "idle"
                 /\ last'.caller = c
                 /\ last'.value # AbortedStateReachedError]_vars

\* a run that ended normally in an aborted machine with incomes of its input
\* left over, a deferred income in the queue and a recall requested
C14_Witness ==
    /\ last.kind = "return"
    /\ is_aborted(ex)
    /\ ex.pending # <<>>
    /\ ex.context.recalled
    /\ shell = "iterable_opt"
    /\ input[last.caller] # <<>>

\* C15: in the Iterable, IterableOpt and IterableSeq shells a run raises a
\* handler exception only if the fallback resolver returns no state for it
C15_Original ==
    (/\ shell \in {"iterable", "iterable_opt", "iterable_seq"}
     /\ last.kind = "raise"
     /\ last.value \in Errors) =>
        Fallback(last.value) = None

\* the exception the body of the last method call raised, None if it raised none
BodyRaised ==
    IF last.kind = "raise" /\ last.bodies > 0
    THEN Body(last.func, last.args, before.attrs).raise
    ELSE None

\* C16: when the body of a declarative method raises an exception whose type is the
\* fallback of a state F, the machine is in F after the call and the call raises
\* that same exception
C16_FallbackStateAndReraise ==
    (shell = "declarative" /\ BodyRaised # None) =>
        \A F \in states(machine) :
            BodyRaised \in F.fallback =>
                /\ current_state(ex) = F.name
                /\ last.kind = "raise"
                /\ last.value = BodyRaised

C16_Witness ==
    /\ shell = "declarative"
    /\ machine = "PositiveNumberStore"
    /\ last.kind = "raise"
    /\ last.func = "extend"
    /\ last.value = ValueError
    /\ before.context.source = "opened"
    /\ current_state(ex) = "broken"
    /\ Len(EventsOf(ex, "transition")) = 1

\* the states a method is declared for: the sources of its transitions and its
\* idempotent state
DeclaredFor(func) ==
    {s.name : s \in {x \in states(machine) :
        \/ x.name \in DOMAIN methods(machine)[func].transitions
        \/ x.name = methods(machine)[func].idempotent.state}}

\* a step of the machine that is a method call, last' telling which method was called
IsMethodCall == shell = "declarative" /\ <<ex, last, before>>' # <<ex, last, before>>

\* C17: a declarative method called while current_state is neither one of its declared
\* source states nor its idempotent state raises InvalidStateError; the body is not
\* executed, the subscriber is notified of nothing and current_state is unchanged
C17_InvalidStateRejected ==
    [][(IsMethodCall /\ current_state(ex) \notin DeclaredFor(last'.func)) =>
          /\ last'.kind = "raise"
          /\ last'.value = InvalidStateError
          /\ last'.bodies = 0
          /\ attrs' = attrs
          /\ ex'.events = <<>>
          /\ ex'.context = ex.context
          /\ current_state(ex') = current_state(ex)]_vars

C17_Witness ==
    /\ shell = "declarative"
    /\ machine = "OrderController"
    /\ last.kind = "raise"
    /\ last.value = InvalidStateError
    /\ last.func = "confirm_order"
    /\ current_state(ex) = "waiting_for_payment"
    /\ before.context.source = "waiting_for_payment"
    /\ ex.events = <<>>

\* C18: a method declared idempotent in state S with a returns getter, called in S,
\* does not execute its body and causes no transition; called in another declared
\* source state it executes the body once and then applies that source's transition;
\* both calls return the value of the getter
C18_IdempotentReturnsGetter ==
    [][(IsMethodCall /\ methods(machine)[last'.func].idempotent.returns # None) =>
          LET options == methods(machine)[last'.func]
              S == options.idempotent.state
              source == current_state(ex)
          IN  /\ source = S =>
                    /\ last'.bodies = 0
                    /\ attrs' = attrs
                    /\ current_state(ex') = S
                    /\ EventsOf(ex', "transition") = <<>>
                    /\ last'.kind = "return"
                    /\ last'.value = attrs'.nums
              /\ (source # S /\ source \in DOMAIN options.transitions) =>
                    /\ last'.bodies = 1
                    /\ attrs' = Body(last'.func, last'.args, attrs).attrs
                    /\ ex'.context.source =
                         execute(options.transitions[source], attrs', ex.context)
                            .context.destination
                    /\ Len(EventsOf(ex', "transition")) = 1
                    /\ last'.kind = "return"
                    /\ last'.value = attrs'.nums]_vars

C18_Witness ==
    /\ shell = "declarative"
    /\ machine = "PositiveNumberStore"
    /\ last.kind = "return"
    /\ last.func = "close"
    /\ last.bodies = 0
    /\ before.context.source = "closed"
    /\ current_state(ex) = "closed"
    /\ Len(attrs.nums) = 2
    /\ last.value = attrs.nums

\* the transitions declared for a method and a state whose condition holds of the
\* instance a
Matching(func, source, a) ==
    LET declared == IF source \in DOMAIN methods(machine)[func].transitions
                    THEN methods(machine)[func].transitions[source]
                    ELSE <<>>
    IN  SelectSeq(declared, LAMBDA tr : tr.kind = "constant" \/ a \in tr.condition)

\* C19: a declarative method call fires at most one transition; when no transition
\* declared for the method and the current state matches, the body still runs and
\* current_state is unchanged; a call made once the condition holds transitions
C19_AtMostOneTransition ==
    [][IsMethodCall =>
          /\ Len(EventsOf(ex', "transition")) <= 1
          /\ (last'.kind = "return" /\ Matching(last'.func, current_state(ex), attrs') = <<>>) =>
                /\ last'.bodies =
                      (IF current_state(ex) = methods(machine)[last'.func].idempotent.state
                       THEN 0 ELSE 1)
                /\ last'.bodies = 1 => attrs' = Body(last'.func, last'.args, attrs).attrs
                /\ current_state(ex') = current_state(ex)
                /\ EventsOf(ex', "transition") = <<>>
          /\ (last'.kind = "return" /\ Matching(last'.func, current_state(ex), attrs') # <<>>) =>
                /\ current_state(ex') =
                      LET tr == Head(Matching(last'.func, current_state(ex), attrs'))
                      IN  IF tr.kind = "constant" THEN tr.destination ELSE tr.then
                /\ Len(EventsOf(ex', "transition")) = 1]_vars

C19_Witness ==
    /\ shell = "declarative"
    /\ machine = "OrderController"
    /\ last.kind = "return"
    /\ last.func = "add_order_payment"
    /\ before.context.source = "waiting_for_payment"
    /\ before.attrs.items = 2
    /\ before.attrs.payments = 1
    /\ attrs.payments = 2
    /\ current_state(ex) = "processing"

\* C20: after a declarative machine has performed a transition into a state declared
\* with final=True it is aborted: is_aborted is true once that call has left the state
C20_Original ==
    (shell = "declarative" /\ current_state(ex) \in finals(machine)) => is_aborted(ex)

\* C21: ConditionCases called in idle with value v in {0,1,2,4,5,7}: evaluate_all_123
\* moves it to ok only for v = 7 and leaves it in idle otherwise; evaluate_any_012
\* moves it to ok for v in {1,2,5,7} and leaves it in idle for v in {0,4}
C21_ConditionTruthTable ==
    (/\ shell = "declarative"
     /\ machine = "ConditionCases"
     /\ last.kind # "none"
     /\ before.context.source = "idle"
     /\ attrs.value \in {0, 1, 2, 4, 5, 7}) =>
        /\ last.kind = "return"
        /\ last.func = "evaluate_all_123" =>
              current_state(ex) = (IF attrs.value = 7 THEN "ok" ELSE "idle")
        /\ last.func = "evaluate_any_012" =>
              current_state(ex) = (IF attrs.value \in {1, 2, 5, 7} THEN "ok" ELSE "idle")

C21_Witness ==
    /\ shell = "declarative"
    /\ machine = "ConditionCases"
    /\ last.kind = "return"
    /\ last.func = "evaluate_any_012"
    /\ before.context.source = "idle"
    /\ attrs.value = 5
    /\ current_state(ex) = "ok"

\* C22: given the same handlers, fallback and incomes, AsyncStateMachineExecutor with
\* AsyncUnaryStateMachine produces the same notifications, the same current_state,
\* the same pending queue and the same outcomes as StateMachineExecutor with
\* UnaryStateMachine
C22_AsyncMirrorsSync ==
    mirror.pc # None =>
        /\ mirror.ex.events = ex.events
        /\ current_state(mirror.ex) = current_state(ex)
        /\ mirror.ex.pending = ex.pending
        /\ mirror.ex.context = ex.context
        /\ mirror.pc = pc["c1"]
        /\ mirror.income = income["c1"]
        /\ mirror.outcome = outcome["c1"]
        /\ mirror.last = last

C22_Witness ==
    /\ mirror.pc = "handle"
    /\ mirror.replay
    /\ replay["c1"]
    /\ current_state(mirror.ex) = "S2"
    /\ Len(mirror.ex.pending) = 1
    /\ Len(EventsOf(mirror.ex, "income_recalled")) = 1
    /\ Len(EventsOf(mirror.ex, "state_left")) = 1
    /\ Len(EventsOf(mirror.ex, "transition")) = 1
    /\ Len(EventsOf(mirror.ex, "income_deferred")) = 1

\* C23: a notify_* call of AsyncStateMachineSubscriberRegistry schedules the
\* notification of all registered subscribers together, returns only after every
\* one of them has completed, notifies each registered subscriber exactly once per
\* event, and returns immediately when there are no subscribers
C23_GatherNotifiesAll ==
    [][/\ registry.pc # None /\ registry'.event # registry.event =>
             /\ registry'.targets = registry.subscribers
             /\ \A s \in registry.subscribers : registry'.tasks[s].at = "scheduled"
             /\ registry.subscribers = {} => registry'.pc = "returned"
       /\ registry'.pc = "gather" => registry'.targets # {}
       /\ registry'.pc = "returned" =>
             \A s \in registry'.targets :
                 registry'.tasks[s] = [entered |-> 1, at |-> "done"]
       /\ registry'.pc # None =>
             \A s \in Subscribers :
                 /\ registry'.tasks[s].entered <= 1
                 /\ s \notin registry'.targets => registry'.tasks[s] = NoTask]_vars

C23_Witness ==
    /\ registry.pc = "returned"
    /\ registry.targets = Subscribers
    /\ registry.subscribers # Subscribers

\* a step of both machines in which the handler returned or raised
TurnEnds == shell = "unary" /\ mirror.pc # None /\ pc["c1"] = "handle" /\ ops' = <<>>

\* the turn that ends has completed leave-processing
TurnLeft == TurnEnds /\ (pc'["c1"] = "handle" \/ last'.kind = "return")

\* the handler has called the Context method name in the turn
HasCalled(name) == \E i \in 1..Len(ops) : ops[i] = name

\* C24: an income is appended to the pending queue, with an income_deferred
\* notification, exactly when its handler called defer() in its own turn and the
\* turn completed leave-processing
C24_Original ==
    [][TurnEnds =>
          (EventsOf(ex', "income_deferred") # <<>>
              <=> (TurnLeft /\ HasCalled("defer")))]_vars

\* C25: the state change at the end of a turn is to a destination requested in that
\* turn by set_state or by the fallback; a turn that returns without set_state
\* leaves current_state unchanged; no destination remains after a turn
C25_Original ==
    [][TurnEnds =>
          LET changed == EventsOf(ex', "transition") # <<>>
              to == IF changed
                    THEN EventsOf(ex', "transition")[1][3]
                    ELSE None
          IN  /\ changed =>
                    \/ TurnLeft /\ HasCalled("set_state") /\ to = ex.context.destination
                    \/ ~TurnLeft /\ to = Fallback(last'.value)
              /\ (TurnLeft /\ ~HasCalled("set_state")) => ~changed
              /\ ex'.context.destination = None]_vars

\* the handler of a triggering turn raised and the fallback resolved the exception
\* to another state
TurnResolved ==
    /\ TurnEnds
    /\ ~TurnLeft
    /\ ~replay["c1"]
    /\ Fallback(last'.value) \notin {None, current_state(ex)}

\* C26: when a fallback resolves a handler exception the engine runs full
\* leave-processing: a deferred income is pushed and the subscriber sees
\* state_failed, state_left(old), transition(old, fallback)
C26_Original ==
    [][TurnResolved =>
          /\ SelectSeq(ex'.events,
                       LAMBDA ev : ev[1] \in {"state_failed", "state_left", "transition"}) =
                <<Ev("state_failed", current_state(ex), last'.value, None),
                  Ev("state_left", current_state(ex), income["c1"], None),
                  Ev("transition", current_state(ex), Fallback(last'.value), None)>>
          /\ HasCalled("defer") =>
                /\ ex'.pending = Append(ex.pending, income["c1"])
                /\ EventsOf(ex', "income_deferred") # <<>>]_vars

\* C27: after a turn in which recall() was not called the run ends without popping
\* anything: the pending queue keeps what it held plus the income deferred in
\* that turn
C27_Original ==
    [][(TurnLeft /\ ~HasCalled("recall")) =>
          /\ pc'["c1"] = "idle"
          /\ EventsOf(ex', "income_recalled") = <<>>
          /\ ex'.pending =
                ex.pending \o (IF EventsOf(ex', "income_deferred") # <<>>
                               THEN <<income["c1"]>>
                               ELSE <<>>)]_vars

\* C28: a replay pops the most recently deferred income still in the pending queue
\* (append at tail, pop from tail), and a recall() request pops at most one income:
\* the pop consumes the request
C28_RecallStackOrder ==
    [][TurnEnds =>
          LET pushed == IF EventsOf(ex', "income_deferred") # <<>>
                        THEN Append(ex.pending, income["c1"])
                        ELSE ex.pending
              popped == EventsOf(ex', "income_recalled")
          IN  /\ Len(popped) <= 1
              /\ popped = <<>> => ex'.pending = pushed
              /\ popped # <<>> =>
                    /\ pushed # <<>>
                    /\ popped[1][3] = Last(pushed)
                    /\ ex'.pending = Front(pushed)
                    /\ replay'["c1"]
                    /\ income'["c1"] = Last(pushed)
                    /\ ex.context.recalled
                    /\ ~ex'.context.recalled]_vars

C28_Witness ==
    /\ shell = "unary"
    /\ mirror.pc # None
    /\ pc["c1"] = "handle"
    /\ replay["c1"]
    /\ income["c1"] = "i2"
    /\ ex.pending = <<"i1">>
    /\ EventsOf(ex, "income_deferred") = <<>>
    /\ EventsOf(ex, "income_recalled") # <<>>

\* C29: a turn, triggering or replayed, that leaves the machine aborted ends the
\* run: nothing is popped or replayed even when recall() was requested and the
\* pending queue is not empty, and the incomes stay in the queue
C29_AbortedStopsRecall ==
    [][(TurnLeft /\ ex.context.aborted) =>
          /\ ex'.context.aborted
          /\ pc'["c1"] = "idle"
          /\ last' = Returned("c1", last'.value)
          /\ EventsOf(ex', "income_recalled") = <<>>
          /\ ex'.pending =
                ex.pending \o (IF EventsOf(ex', "income_deferred") # <<>>
                               THEN <<income["c1"]>>
                               ELSE <<>>)]_vars

C29_Witness ==
    /\ shell = "unary"
    /\ mirror.pc # None
    /\ pc["c1"] = "idle"
    /\ last.kind = "return"
    /\ ex.context.aborted
    /\ ex.context.recalled
    /\ Len(ex.pending) = 2
    /\ EventsOf(ex, "final") # <<>>
    /\ EventsOf(ex, "income_deferred") = <<>>

\* C30: is_aborted is false while a handler is running, and true only once
\* leave-processing of a turn that requested abort() or set_state(final=True) has
\* completed
C30_Original ==
    (shell = "unary" /\ mirror.pc # None) =>
        /\ pc["c1"] = "handle" => ~is_aborted(ex)
        /\ is_aborted(ex) =>
              \/ last.kind = "return"
              \/ last = Raised("c1", AbortedStateReachedError)

\* a step of both machines that calls a handler: run enters the triggering turn, or a
\* turn returned and the recall loop enters a replay
VisitStarts ==
    /\ shell = "unary"
    /\ mirror.pc # None
    /\ pc'["c1"] = "handle"
    /\ pc["c1"] = "idle" \/ TurnEnds

\* C31: initial is notified exactly once, on the machine's first visit, and
\* state_entered(S) on the first visit after S became current and on no later visit
\* while S stays current, also after a turn that failed without a fallback
C31_EnteredOncePerResidency ==
    [][(shell = "unary" /\ mirror.pc # None /\ (pc["c1"] = "idle" \/ TurnEnds)) =>
          LET first_visit == pc["c1"] = "idle" /\ last.kind = "none"
              became_current ==
                  IF pc["c1"] = "idle"
                  THEN first_visit \/ EventsOf(ex, "transition") # <<>>
                  ELSE EventsOf(ex', "transition") # <<>>
          IN  /\ EventsOf(ex', "initial") =
                    (IF VisitStarts /\ first_visit
                     THEN <<Ev("initial", current_state(ex'), None, None)>>
                     ELSE <<>>)
              /\ EventsOf(ex', "state_entered") =
                    (IF VisitStarts /\ became_current
                     THEN <<Ev("state_entered", current_state(ex'), income'["c1"], None)>>
                     ELSE <<>>)]_vars

C31_Witness ==
    /\ shell = "unary"
    /\ mirror.pc # None
    /\ pc["c1"] = "handle"
    /\ ~replay["c1"]
    /\ last = Raised("c1", "E2")
    /\ current_state(ex) = "S2"
    /\ ex.events = <<>>

\* C32: set_state only records a destination: current_state stays the entered state
\* while the handler runs, the state_outcome notification of the turn carries that
\* state, and the state changes only in leave-processing or in fallback dispatch,
\* where the subscriber is told of the transition
C32_SetStateOnlyRecords ==
    [][(shell = "unary" /\ mirror.pc # None /\ pc["c1"] = "handle") =>
          /\ ~TurnEnds => current_state(ex') = current_state(ex)
          /\ TurnEnds =>
                /\ \A i \in 1..Len(ex'.events) :
                      IsEv(ex'.events[i], "state_outcome") =>
                          ex'.events[i][2] = current_state(ex)
                /\ TurnLeft => EventsOf(ex', "state_outcome") # <<>>
                /\ current_state(ex') # current_state(ex) =>
                      /\ EventsOf(ex', "transition") =
                            <<Ev("transition", current_state(ex), current_state(ex'), None)>>
                      /\ \/ TurnLeft /\ current_state(ex') = ex.context.destination
                         \/ ~TurnLeft /\ ~replay["c1"]
                               /\ current_state(ex') = Fallback(last'.value)]_vars

C32_Witness ==
    /\ shell = "unary"
    /\ mirror.pc # None
    /\ pc["c1"] = "handle"
    /\ HasCalled("set_state")
    /\ ex.context.destination = "S2"
    /\ current_state(ex) = "S1"
    /\ EventsOf(ex, "state_entered") # <<>>

\* C33: the outcomes of one income are pulled one at a time: an outcome is yielded
\* with nothing reported or left yet, it is reported by handle_outcome before the
\* next one is pulled, and leave-processing runs only once the stream is exhausted
C33_OutcomesOneAtATime ==
    [][(shell \in {"iterable", "declarative"} /\ <<pc, ex, outcome>>' # <<pc, ex, outcome>>) =>
          LET reported == [ex EXCEPT !.events =
                              Append(@, Ev("state_outcome", current_state(ex),
                                           income["c1"], outcome["c1"]))]
          IN  /\ (pc["c1"] = "handle" /\ pc'["c1"] = "yielded") => ex' = ex
              /\ (pc["c1"] = "idle" /\ pc'["c1"] = "yielded") =>
                    /\ ex'.context.source = ex.context.source
                    /\ ex'.pending = ex.pending
                    /\ EventsOf(ex', "state_outcome") = <<>>
                    /\ EventsOf(ex', "state_left") = <<>>
              /\ (pc["c1"] = "yielded" /\ last'.kind # "close") =>
                    \/ pc'["c1"] = "handle" /\ ex' = reported
                    \/ pc'["c1"] = "yielded" /\ ex' = reported
                          /\ outcome'["c1"] = Head(outs["c1"])
                    \/ pc'["c1"] = "idle" /\ outs["c1"] = <<>>
                          /\ SubSeq(ex'.events, 1, Len(reported.events)) = reported.events]_vars

C33_Witness ==
    /\ shell = "declarative"
    /\ pc["c1"] = "yielded"
    /\ outcome["c1"] = 2
    /\ Len(EventsOf(ex, "state_outcome")) = 1
    /\ current_state(ex) = "idle"

\* a step of the IterableOpt shell in which the handler returned None: the turn ends
\* with no yield and no exception (only the fallback leads to S3)
ReturnsNone ==
    /\ shell = "iterable_opt"
    /\ pc["c1"] = "handle"
    /\ \/ pc'["c1"] = "idle" /\ last'.kind # "raise"
             /\ EventsOf(ex', "state_failed") = <<>>
       \/ pc'["c1"] = "handle" /\ input' # input
             /\ (before'.context.source = "S3" => current_state(ex) = "S3")

\* C34: in the IterableOpt shell a handler that returns None yields nothing and no
\* state_outcome is notified, but leave-processing runs: the requested transition,
\* defer or abort takes effect
C34_NoneStillLeaves ==
    [][ReturnsNone =>
          LET after == IF pc'["c1"] = "handle" THEN before' ELSE Snapshot(ex')
          IN  /\ after.context.source =
                    (IF can_transit(ex.context) THEN ex.context.destination
                     ELSE current_state(ex))
              /\ after.pending =
                    (IF ex.context.deferred THEN Append(ex.pending, income["c1"])
                     ELSE ex.pending)
              /\ ~after.context.deferred
              /\ ex.context.aborted =>
                    /\ pc'["c1"] = "idle"
                    /\ is_aborted(ex')
                    /\ last' = Returned("c1", None)
                    /\ EventsOf(ex', "final") # <<>>
              /\ pc'["c1"] = "idle" => EventsOf(ex', "state_outcome") = <<>>]_vars

C34_Witness ==
    /\ shell = "iterable_opt"
    /\ pc["c1"] = "idle"
    /\ last = Returned("c1", None)
    /\ current_state(ex) = "S2"
    /\ is_aborted(ex)
    /\ EventsOf(ex, "state_outcome") = <<>>
    /\ EventsOf(ex, "income_deferred") # <<>>
    /\ EventsOf(ex, "transition") # <<>>
    /\ EventsOf(ex, "final") # <<>>

\* the destination a transition asks for on an income, None when it asks for none
AskedFor(transition, inc) ==
    IF transition.kind = "constant" THEN transition.destination
    ELSE IF transition.kind = "conditional"
    THEN (IF inc \in transition.condition THEN transition.then ELSE transition.otherwise)
    ELSE IF transition.destinations[transition.key[inc]] # None
    THEN transition.destinations[transition.key[inc]]
    ELSE transition.default

\* C35: a Constant transition always requests its destination and returns true; a
\* Conditional requests then or else otherwise, a Mapping the mapped destination or
\* else the default, and both return false without set_state when neither applies
C35_PerformByKind ==
    tx.done =>
        /\ \A j \in 1..Len(tx.table) :
              (tx.returned = 0 \/ j < tx.returned) => AskedFor(tx.table[j], tx.income) = None
        /\ tx.returned = 0 => ex.context.destination = None
        /\ tx.returned # 0 =>
              /\ AskedFor(tx.table[tx.returned], tx.income) # None
              /\ ex.context.destination = AskedFor(tx.table[tx.returned], tx.income)
        /\ \A j \in 1..Len(tx.table) :
              tx.table[j].kind = "constant" => tx.returned # 0 /\ tx.returned <= j

C35_Witness ==
    /\ tx.done
    /\ Len(tx.table) = 3
    /\ tx.table[1].kind = "conditional"
    /\ tx.table[2].kind = "mapping"
    /\ tx.table[3].kind = "constant"
    /\ tx.returned = 3
    /\ ex.context.destination = tx.table[3].destination

\* a step in which the handler of the turn called a Context method
CallStep ==
    /\ shell = "unary"
    /\ mirror.pc # None
    /\ pc["c1"] = "handle"
    /\ pc'["c1"] = "handle"
    /\ ops' # <<>>

\* the handler called the Context method name for the first time in the turn
NewCall(name) == CallStep /\ ~HasCalled(name) /\ \E i \in 1..Len(ops') : ops'[i] = name

\* C36: set_state after recall() cancels the recall request and set_state(final=False)
\* after abort() or set_state(final=True) cancels the abort request, while recall() or
\* abort() after set_state stay in effect up to the end of the turn
C36_OrderOfRequests ==
    [][/\ (NewCall("set_state") \/ (CallStep /\ ex'.context.destination # ex.context.destination)) =>
             /\ ex'.context.destination # None
             /\ ~ex'.context.recalled
             /\ ex'.context.aborted <=> ex'.context.destination = "S3"
       /\ NewCall("recall") =>
             /\ ex'.context.recalled
             /\ ex'.context.destination = ex.context.destination
             /\ ex'.context.aborted = ex.context.aborted
       /\ NewCall("abort") =>
             /\ ex'.context.aborted
             /\ ex'.context.destination = ex.context.destination
             /\ ex'.context.recalled = ex.context.recalled
       /\ TurnLeft =>
             /\ is_aborted(ex') = ex.context.aborted
             /\ pc'["c1"] = "handle" <=>
                   /\ ex.context.recalled
                   /\ ~ex.context.aborted
                   /\ ex.pending # <<>> \/ ex.context.deferred]_vars

C36_Witness ==
    /\ shell = "unary"
    /\ mirror.pc # None
    /\ pc["c1"] = "handle"
    /\ HasCalled("recall")
    /\ HasCalled("abort")
    /\ ex.pending # <<>>
    /\ ex.context.destination = "S2"
    /\ ~ex.context.recalled
    /\ ~ex.context.aborted

C38_Original ==
    [][(shell = "unary" /\ mirror.pc # None) =>
          LET pushed == TurnEnds /\ EventsOf(ex', "income_deferred") # <<>>
              popped == TurnEnds /\ EventsOf(ex', "income_recalled") # <<>>
              queue == IF pushed THEN Append(ex.pending, income["c1"]) ELSE ex.pending
          IN  /\ pushed => HasCalled("defer")
              /\ popped => /\ pc'["c1"] = "handle"
                           /\ replay'["c1"]
                           /\ income'["c1"] = Last(queue)
              /\ ex'.pending = IF popped THEN Front(queue) ELSE queue]_vars

\* C39: a run call whose replayed handlers never call defer() terminates: the queue
\* the cascade starts with loses one income at every replay and gains none, so the
\* cascade replays at most as many incomes as that queue held
C39_CascadeShrinksQueue ==
    [][(TurnLeft /\ pc'["c1"] = "handle") =>
          /\ replay'["c1"]
          /\ Len(EventsOf(ex', "income_recalled")) = 1
          /\ ~replay["c1"] =>
                Len(ex'.pending) =
                    Len(IF HasCalled("defer") \/ ex.context.deferred
                        THEN Append(ex.pending, income["c1"]) ELSE ex.pending) - 1
          /\ (replay["c1"] /\ ~HasCalled("defer")) =>
                /\ Len(ex'.pending) = Len(ex.pending) - 1
                /\ EventsOf(ex', "income_deferred") = <<>>]_vars

C39_Witness ==
    /\ shell = "unary"
    /\ mirror.pc # None
    /\ pc["c1"] = "handle"
    /\ replay["c1"]
    /\ ex.pending # <<>>
    /\ EventsOf(ex, "income_recalled") # <<>>
    /\ EventsOf(ex, "income_deferred") = <<>>
    /\ EventsOf(ex, "state_outcome") # <<>>
    /\ ex.context.recalled

====
